---- MODULE Spec2Model ----
(***************************************************************************)
(* The REST review-comment fetcher of the GitHub PR review server:         *)
(* fetch_pr_comments, its status handler handle_rest_status and the retry  *)
(* executor _retry_http_request                                            *)
(* (src/src/mcp_github_pr_review_spec_maker/server.py).                    *)
(*                                                                         *)
(* One behaviour is one call of fetch_pr_comments.  The GitHub server is   *)
(* the environment: every GET is answered by a response or by a            *)
(* connection-level error that the environment chooses.  One step of the   *)
(* model is one iteration of the executor's loop: the GET, the status      *)
(* handler, the executor's own 5xx logic and, when the executor returns    *)
(* or raises, the fetcher's handling of that result.                       *)
(*                                                                         *)
(* A second specification, SpecTool, is one call of the tool method         *)
(* fetch_pr_review_comments: the URL is resolved and parsed, then           *)
(* fetch_pr_comments_graphql pages through the review threads with POSTs    *)
(* sent through the same executor, and the tool returns what the fetch      *)
(* produced.  A list of GraphQL comments is kept as the sequence of the      *)
(* numbers of comments that the threads contributed.                         *)
(*                                                                         *)
(* Durations are in milliseconds.  A list of comments is kept as the       *)
(* sequence of the pages appended to it, a page being the number of        *)
(* comments of its JSON body; len() is the sum of the pages.               *)
(***************************************************************************)
EXTENDS Integers, Sequences, FiniteSets, TLC

(* ------------------------------ bounds --------------------------------- *)

\* GETs one fetch may issue in the model (handler-driven retries are unbounded in the code)
MaxGets == 3
\* largest effective max_retries the model draws (the code allows 0..10)
MaxRetries == 2
\* largest effective max_pages the model draws (the code allows 1..200)
MaxPages == 3
\* POSTs one GraphQL fetch may issue in the model
MaxPosts == 3
\* largest attempt index given to the backoff calculator (max_retries is at most 10)
MaxAttempt == 9

(* --------------------------- program constants ------------------------- *)

\* the clock read by time.time() in handle_rest_status, in seconds
Now == 20
\* retry_after = 60, the default rate-limit delay in seconds
DefaultRetryAfter == 60
\* min(5.0, delay): the ceiling of the backoff delay, in milliseconds
BackoffCap == 5000
\* 0.5 * 2**attempt: the base of the backoff delay, in milliseconds
BackoffBase == 500
\* MAX_COMMENTS_MIN: the smallest effective max_comments
MaxCommentsMin == 100
\* the ceiling of the backoff delay that the rate-limit tests expect
StatedBackoffCeiling == 15000

\* jitter draws of random.uniform(0, 0.25), in milliseconds
Jitters == {0, 250}
\* effective max_comments values the model draws
MaxCommentsChoices == {MaxCommentsMin, 2 * MaxCommentsMin}
\* page URLs: 1 is base_url, 2 another page the server may link to
Urls == {1, 2}
\* comments per page the server may send
PageSizes == {0, 50, 100, 150}

(* ------------------------------ headers -------------------------------- *)

\* a header that the response does not carry: headers.get(name) is None
Absent == [present |-> FALSE, text |-> <<>>]
\* a header with the given text, a sequence of characters
H(text) == [present |-> TRUE, text |-> text]

\* Python truthiness of headers.get(name): None and "" are falsy
Truthy(h) == h.present /\ h.text # <<>>

DigitChars == {"0", "1", "2", "3", "4", "5", "6", "7", "8", "9"}

DigitValue(c) ==
    CASE c = "0" -> 0 [] c = "1" -> 1 [] c = "2" -> 2 [] c = "3" -> 3
      [] c = "4" -> 4 [] c = "5" -> 5 [] c = "6" -> 6 [] c = "7" -> 7
      [] c = "8" -> 8 [] c = "9" -> 9

\* int(text) succeeds: a non-empty run of decimal digits
IntParses(text) == text # <<>> /\ \A i \in 1..Len(text) : text[i] \in DigitChars

RECURSIVE IntValue(_)
\* int(text) for a text that parses
IntValue(text) ==
    IF text = <<>> THEN 0
    ELSE 10 * IntValue(SubSeq(text, 1, Len(text) - 1)) + DigitValue(text[Len(text)])

Max(a, b) == IF a >= b THEN a ELSE b
Min(a, b) == IF a <= b THEN a ELSE b

RECURSIVE Pow2(_)
Pow2(n) == IF n = 0 THEN 1 ELSE 2 * Pow2(n - 1)

RECURSIVE SumSeq(_)
\* len() of a comment list kept as its pages
SumSeq(s) == IF s = <<>> THEN 0 ELSE s[1] + SumSeq(Tail(s))

(* ----------------------------- responses ------------------------------- *)

NoBody == [kind |-> "other", n |-> 0]
NoLink == <<>>

\* 200 responses: a JSON list of n objects or some other JSON value, with or without a Link header
OkResponses ==
    { [status |-> 200, retry_after |-> Absent, remaining |-> Absent, reset |-> Absent,
       link |-> l, body |-> b] :
        l \in {NoLink} \cup { <<[target |-> u, rel |-> "next"]>> : u \in Urls }
                       \cup { <<[target |-> 1, rel |-> "prev"]>> },
        b \in { [kind |-> "list", n |-> n] : n \in PageSizes } \cup {NoBody} }

\* the rate-limit headers a 403 or 429 may carry: Retry-After, X-RateLimit-Remaining, X-RateLimit-Reset
LimitHeaders ==
    { <<Absent, Absent, Absent>>,
      <<Absent, Absent, H(<<"2", "7">>)>>,
      <<H(<<"5">>), Absent, Absent>>,
      <<H(<<"x">>), Absent, Absent>>,
      <<H(<<"x">>), Absent, H(<<"2", "7">>)>>,
      <<H(<<>>), H(<<"0">>), H(<<"2", "7">>)>>,
      <<H(<<"5">>), H(<<"0">>), H(<<"2", "7">>)>>,
      <<Absent, H(<<"0">>), Absent>>,
      <<Absent, H(<<"0">>), H(<<"2", "7">>)>>,
      <<Absent, H(<<"0">>), H(<<"1", "7">>)>>,
      <<Absent, H(<<"0">>), H(<<"x">>)>> }

\* 403 and 429 responses
LimitResponses ==
    { [status |-> s, retry_after |-> hs[1], remaining |-> hs[2], reset |-> hs[3],
       link |-> NoLink, body |-> NoBody] :
        s \in {403, 429}, hs \in LimitHeaders }

\* the other error statuses
PlainResponses ==
    { [status |-> s, retry_after |-> Absent, remaining |-> Absent, reset |-> Absent,
       link |-> NoLink, body |-> NoBody] : s \in {401, 404, 500} }

Responses == OkResponses \cup LimitResponses \cup PlainResponses

\* the value of resp before the first GET and after a connection-level error
NoResponse ==
    [status |-> 0, retry_after |-> Absent, remaining |-> Absent, reset |-> Absent,
     link |-> NoLink, body |-> NoBody]

ErrorKinds == {"timeout", "connect"}

\* the value of resp after a connection-level error: no response, and the exception raised
Raised(kind) == [NoResponse EXCEPT !.body = [kind |-> kind, n |-> 0]]

Is5xx(status) == 500 <= status /\ status < 600

(* ------------------------- GraphQL responses --------------------------- *)

\* comments a review thread of a response may carry (comments(first: 100))
ThreadSizes == {0, 1, 100}

\* the review threads of one page, each thread being the number of its comments
ThreadLists ==
    {<<>>} \cup { <<a>> : a \in ThreadSizes }
           \cup { <<a, b>> : a \in ThreadSizes, b \in ThreadSizes }

\* pageInfo of a page: hasNextPage and endCursor (0 is null)
PageInfos ==
    { [has_next |-> FALSE, end_cursor |-> 0],
      [has_next |-> TRUE, end_cursor |-> 1],
      [has_next |-> TRUE, end_cursor |-> 0] }

\* a body: json is FALSE when response.json() raises, errors is "errors" in data,
\* pr is the truth of data.repository.pullRequest, then its reviewThreads
GqlBody(json, errors, pr, threads, info) ==
    [json |-> json, errors |-> errors, pr |-> pr, threads |-> threads, info |-> info]

GqlNoBody == GqlBody(FALSE, FALSE, FALSE, <<>>, [has_next |-> FALSE, end_cursor |-> 0])

GqlBodies ==
    { GqlNoBody,
      GqlBody(TRUE, TRUE, FALSE, <<>>, [has_next |-> FALSE, end_cursor |-> 0]),
      GqlBody(TRUE, TRUE, TRUE, <<1>>, [has_next |-> TRUE, end_cursor |-> 1]),
      GqlBody(TRUE, FALSE, FALSE, <<>>, [has_next |-> FALSE, end_cursor |-> 0]) }
    \cup { GqlBody(TRUE, FALSE, TRUE, ts, info) : ts \in ThreadLists, info \in PageInfos }

GqlResponse(status, hs, body) ==
    [status |-> status, retry_after |-> hs[1], remaining |-> hs[2], reset |-> hs[3],
     body |-> body, raised |-> "none"]

\* the rate-limit headers a 403 or 429 answer to a POST may carry
GqlLimitHeaders ==
    { <<Absent, Absent, Absent>>,
      <<H(<<"5">>), Absent, Absent>>,
      <<Absent, H(<<"0">>), H(<<"2", "7">>)>> }

GqlResponses ==
    { GqlResponse(200, <<Absent, Absent, Absent>>, b) : b \in GqlBodies }
    \cup { GqlResponse(st, hs, GqlNoBody) : st \in {403, 429}, hs \in GqlLimitHeaders }
    \cup { GqlResponse(st, <<Absent, Absent, Absent>>, GqlNoBody) : st \in {401, 500} }

\* the value of gql_resp before the first POST
GqlNoResponse == GqlResponse(0, <<Absent, Absent, Absent>>, GqlNoBody)

\* the value of gql_resp after a connection-level error: no response, and the exception raised
GqlRaised(kind) == [GqlNoResponse EXCEPT !.raised = kind]

(* ------------------------------- state --------------------------------- *)

VARIABLES
    token,               \* bool(os.getenv("GITHUB_TOKEN"))
    max_retries_v,       \* the effective limits of this fetch
    max_pages_v,
    max_comments_v,
    authorization,       \* scheme of headers["Authorization"]: "none", "Bearer", "token"
    used_token_fallback,
    had_server_error,
    url,                 \* the page to request, 1 is base_url
    page_count,
    all_comments,
    attempt,             \* the executor's counter of the current run
    pc,                  \* "request": a GET is due; "done": the fetch has returned or raised
    outcome,             \* "none", "list", "null", "http_error", "request_error"
    gets,                \* history: GETs issued by the fetch
    run_gets,            \* history: GETs issued by the current executor run
    run_handler_retries, \* history: "retry" answers of the handler in the current run
    run_counted,         \* history: backoff retries of the current run
    sleeps,              \* history: calls of asyncio.sleep
    last_sleep,          \* history: kind and duration of the latest sleep
    resp,                \* history: the latest response
    sent_auth,           \* history: the scheme sent with each GET
    sent_url,            \* history: the url of each GET
    first_status,        \* history: status of the first response of the fetch
    switches,            \* history: changes of headers["Authorization"]
    saw_5xx,             \* history: some response of the fetch was a 5xx
    secondary_run,       \* history: consecutive secondary-limit responses ending at the latest GET
    run_kind,            \* history: what answered the GETs of the current run, see RunKindAfter
    ideal,               \* history: every GET was answered 200 with a list and a rel="next" link
    event                \* history: what the latest step did

VARIABLES
    pr_url,              \* the tool's argument: "valid", "malformed" or "none" (falsy)
    tool_pc,             \* "idle", "fetching", "returned", "raised"
    tool_result,         \* the list fetch_pr_review_comments returns
    gql_token,           \* bool(os.getenv("GITHUB_TOKEN")) of the GraphQL fetch
    gql_max_retries_v,   \* the effective limits of the GraphQL fetch
    gql_max_comments_v,
    gql_all_comments,    \* all_comments of fetch_pr_comments_graphql
    gql_cursor,          \* cursor, 0 is None
    gql_has_next_page,
    gql_attempt,         \* the executor's counter of the current run
    gql_pc,              \* "idle", "post": a POST is due, "done"
    gql_outcome,         \* "none", "list", "null", "http_error", "request_error", "value_error"
    posts,               \* history: POSTs issued by the fetch
    gql_pages,           \* history: pages whose threads were processed
    gql_sleeps,          \* history: calls of asyncio.sleep of the GraphQL fetch
    gql_resp,            \* history: the latest response to a POST
    gql_sent_cursor,     \* history: the cursor variable of each POST
    gql_secondary_run,   \* history: consecutive secondary-limit responses ending at the latest POST
    hc_args,             \* the validated arguments of handle_call_tool
    hc_outcome           \* "none", "results", "value_error", "runtime_error"

rest_vars ==
    <<token, max_retries_v, max_pages_v, max_comments_v, authorization,
      used_token_fallback, had_server_error, url, page_count, all_comments,
      attempt, pc, outcome, gets, run_gets, run_handler_retries, run_counted,
      sleeps, last_sleep, resp, sent_auth, sent_url, first_status, switches,
      saw_5xx, secondary_run, run_kind, ideal, event>>

gql_config == <<gql_token, gql_max_retries_v, gql_max_comments_v>>

gql_vars ==
    <<pr_url, tool_pc, tool_result, gql_config, gql_all_comments, gql_cursor,
      gql_has_next_page, gql_attempt, gql_pc, gql_outcome, posts, gql_pages,
      gql_sleeps, gql_resp, gql_sent_cursor, gql_secondary_run, hc_args, hc_outcome>>

VARIABLES
    rs_strategy,         \* select_strategy of resolve_pr_url
    rs_branch,           \* branch of resolve_pr_url, 0 is None
    rs_pc,               \* "idle", "start", "general": the general list is due, "done"
    rs_outcome,          \* what resolve_pr_url returned or raised
    rs_requests,         \* history: the GETs of the resolution, "filtered" or "general"
    rs_resp,             \* history: the answer to the latest GET
    rs_selected,         \* history: the entry whose URL was returned
    call,                \* the latest call of a pure helper: its arguments and its result
    parked,              \* the locals of the fetch_pr_comments call that is suspended at an await
    script               \* the answers the server gives to the GETs of either fetch, by position

rs_vars == <<rs_strategy, rs_branch, rs_pc, rs_outcome, rs_requests, rs_resp, rs_selected>>

aux_vars == <<rs_vars, call, parked, script>>

vars == <<rest_vars, gql_vars, aux_vars>>

\* no entry of a list has been selected
NoPr == [number |-> 0, ref |-> 0, html_url |-> 0, url |-> 0]

\* no second fetch is suspended
NoParked == [pc |-> "absent"]

\* no helper has been called
NoCall == [fn |-> "none"]

\* resolve_pr_url has neither returned nor raised
RsNoOutcome == [kind |-> "none", url |-> 0, msg |-> "none"]

\* no GET of the resolution has been answered
RsNoResponse == [status |-> 0, data |-> <<>>, raised |-> "none"]

\* resolve_pr_url is not running and no helper is called
AuxIdle ==
    /\ rs_strategy = "branch"
    /\ rs_branch = 0
    /\ rs_pc = "idle"
    /\ rs_outcome = RsNoOutcome
    /\ rs_requests = <<>>
    /\ rs_resp = RsNoResponse
    /\ rs_selected = NoPr
    /\ call = NoCall
    /\ parked = NoParked
    /\ script = <<>>

config == <<token, max_retries_v, max_pages_v, max_comments_v>>

NoSleep == [kind |-> "none", ms |-> 0]

(* ------------------- values given to the helpers ------------------- *)

\* a Python value handed to a helper: None, a bool, an int, a str (its characters)
\* or a float (n in thousandths, or nan, inf, ninf)
NoneV == [type |-> "none", n |-> 0, text |-> <<>>, special |-> "none"]
BoolV(b) == [type |-> "bool", n |-> IF b THEN 1 ELSE 0, text |-> <<>>, special |-> "none"]
IntV(n) == [type |-> "int", n |-> n, text |-> <<>>, special |-> "none"]
StrV(text) == [type |-> "str", n |-> 0, text |-> text, special |-> "none"]
FloatV(thousandths) ==
    [type |-> "float", n |-> thousandths, text |-> <<>>, special |-> "none"]
SpecialV(special) == [type |-> "float", n |-> 0, text |-> <<>>, special |-> special]

\* the integers tried as arguments: around the ends of the four ranges
IntArgs == {-1, 0, 1, 3, 10, 11, 50, 100, 101, 200, 201, 1000, 100000, 100001}

\* the strings tried as arguments and as environment values
Texts ==
    { <<"3">>, <<"5", "0">>, <<"1", "0", "0", "0">>, <<"-", "1">>, <<"+", "7">>,
      <<"a", "b", "c">>, <<"3", ".", "5">>, <<>> }

Values ==
    {NoneV, BoolV(TRUE), BoolV(FALSE), FloatV(3500), FloatV(-2500),
     SpecialV("nan"), SpecialV("inf"), SpecialV("ninf")}
    \cup { IntV(n) : n \in IntArgs } \cup { StrV(t) : t \in Texts }

\* the limits of a fetch: environment variable, default and range
Limits ==
    { [name |-> "per_page", default |-> 100, min_v |-> 1, max_v |-> 100],
      [name |-> "max_pages", default |-> 50, min_v |-> 1, max_v |-> 200],
      [name |-> "max_comments", default |-> 2000, min_v |-> 100, max_v |-> 100000],
      [name |-> "max_retries", default |-> 3, min_v |-> 0, max_v |-> 10] }

\* int(text) of a str succeeds: an optional sign and decimal digits
PyIntParses(text) ==
    /\ text # <<>>
    /\ IF text[1] \in {"+", "-"} THEN IntParses(Tail(text)) ELSE IntParses(text)

\* int(text) of a str that parses
PyIntValue(text) ==
    IF text[1] = "-" THEN 0 - IntValue(Tail(text))
    ELSE IF text[1] = "+" THEN IntValue(Tail(text))
    ELSE IntValue(text)

\* a quotient rounded toward zero
TruncDiv(a, b) == IF a >= 0 THEN a \div b ELSE 0 - ((0 - a) \div b)

\* int(v): the integer, or the exception raised
ToInt(v) ==
    CASE v.type = "none" -> [error |-> "TypeError", n |-> 0]
      [] v.type \in {"bool", "int"} -> [error |-> "none", n |-> v.n]
      [] v.type = "str" ->
            IF PyIntParses(v.text) THEN [error |-> "none", n |-> PyIntValue(v.text)]
            ELSE [error |-> "ValueError", n |-> 0]
      [] v.type = "float" ->
            IF v.special = "nan" THEN [error |-> "ValueError", n |-> 0]
            ELSE IF v.special # "none" THEN [error |-> "OverflowError", n |-> 0]
            ELSE [error |-> "none", n |-> TruncDiv(v.n, 1000)]

\* max(min_v, min(max_v, n)) of integers
Clamp(n, limit) == Max(limit.min_v, Min(limit.max_v, n))

\* what a helper returns or raises
Returned(value) == [raised |-> "none", value |-> value]
RaisedError(error) == [raised |-> error, value |-> 0]

\* the try block of _int_conf: (TypeError, ValueError) give the default, any other
\* exception leaves the helper
ClampedOrDefault(v, limit) ==
    LET i == ToInt(v) IN
    IF i.error = "none" THEN Returned(Clamp(i.n, limit))
    ELSE IF i.error \in {"TypeError", "ValueError"} THEN Returned(limit.default)
    ELSE RaisedError(i.error)

\* the environment variable is read first and the override only when it is unset
IntConfEnvFirst(limit, override, env) ==
    IF env.present THEN ClampedOrDefault(StrV(env.text), limit)
    ELSE IF override # NoneV THEN ClampedOrDefault(override, limit)
    ELSE Returned(limit.default)

\* _int_conf(name, default, min_v, max_v, override) with os.getenv(name) = env
IntConf(limit, override, env) ==
    IF override # NoneV THEN ClampedOrDefault(override, limit)
    ELSE IF env.present THEN ClampedOrDefault(StrV(env.text), limit)
    ELSE ClampedOrDefault(IntV(limit.default), limit)

\* ServerSettings.clamp_int_values for the field of the limit
ClampIntValues(limit, v) ==
    IF v = NoneV THEN Returned(limit.default) ELSE ClampedOrDefault(v, limit)

\* _validate_int(arg_name, value, min_v, max_v): None, the integer, or ValueError
ValidateInt(limit, value) ==
    IF value = NoneV THEN [raised |-> "none", value |-> NoneV]
    ELSE IF value.type = "bool" THEN RaisedError("ValueError")
    ELSE IF value.type \notin {"int", "str"} THEN RaisedError("ValueError")
    ELSE LET i == ToInt(value) IN
         IF i.error # "none" THEN RaisedError("ValueError")
         ELSE IF ~(limit.min_v <= i.n /\ i.n <= limit.max_v) THEN RaisedError("ValueError")
         ELSE Returned(IntV(i.n))

\* the arguments of a call of the tool that is not under way
NoArgs == [per_page |-> NoneV, max_retries |-> NoneV, output |-> "none"]

\* the output argument: "none" is an omitted or falsy value
OutputArgs == {"none", "json", "invalid"}

\* the arguments of handle_call_tool("fetch_pr_review_comments", ...) that are validated
ToolArgs ==
    [per_page : {NoneV, IntV(101)}, max_retries : {NoneV, BoolV(TRUE)}, output : OutputArgs]

\* neither _validate_int call raises
LimitsValid(args) ==
    /\ ValidateInt(CHOOSE l \in Limits : l.name = "per_page", args.per_page).raised = "none"
    /\ ValidateInt(CHOOSE l \in Limits : l.name = "max_retries", args.max_retries).raised = "none"

\* `output = arguments.get("output") or "markdown"` is one of the three formats
OutputValid(output) ==
    (IF output = "none" THEN "markdown" ELSE output) \in {"markdown", "json", "both"}

\* how handle_call_tool ends once fetch_pr_review_comments has ended: its exception
\* leaves through _run_with_handling, its list is followed by the test of output
HandlerOutcome(fetch_end, output) ==
    IF fetch_end = "raised" THEN "runtime_error"
    ELSE IF ~OutputValid(output) THEN "value_error"
    ELSE "results"

\* the tool before it is called: nothing fetched, all_comments = [], cursor = None,
\* has_next_page = True
ToolIdle ==
    /\ pr_url = "none"
    /\ tool_pc = "idle"
    /\ tool_result = <<>>
    /\ gql_all_comments = <<>>
    /\ gql_cursor = 0
    /\ gql_has_next_page = TRUE
    /\ gql_attempt = 0
    /\ gql_pc = "idle"
    /\ gql_outcome = "none"
    /\ posts = 0
    /\ gql_pages = 0
    /\ gql_sleeps = 0
    /\ gql_resp = GqlNoResponse
    /\ gql_sent_cursor = <<>>
    /\ gql_secondary_run = 0
    /\ hc_args = NoArgs
    /\ hc_outcome = "none"

\* the state in which fetch_pr_comments starts
RestStart ==
    /\ token \in BOOLEAN
    /\ max_retries_v \in 0..MaxRetries
    /\ max_pages_v \in {1, MaxPages}
    /\ max_comments_v \in MaxCommentsChoices
    /\ authorization = IF token THEN "Bearer" ELSE "none"
    /\ used_token_fallback = FALSE
    /\ had_server_error = FALSE
    /\ url = 1
    /\ page_count = 0
    /\ all_comments = <<>>
    /\ attempt = 0
    /\ pc = "request"
    /\ outcome = "none"
    /\ gets = 0
    /\ run_gets = 0
    /\ run_handler_retries = 0
    /\ run_counted = 0
    /\ sleeps = 0
    /\ last_sleep = NoSleep
    /\ resp = NoResponse
    /\ sent_auth = <<>>
    /\ sent_url = <<>>
    /\ first_status = 0
    /\ switches = 0
    /\ saw_5xx = FALSE
    /\ secondary_run = 0
    /\ run_kind = "empty"
    /\ ideal = TRUE
    /\ event = "init"

\* one call of fetch_pr_comments: the tool stays idle
Init ==
    /\ AuxIdle
    /\ ToolIdle
    /\ gql_token = FALSE
    /\ gql_max_retries_v = 0
    /\ gql_max_comments_v = MaxCommentsMin
    /\ RestStart

\* one call of the tool fetch_pr_review_comments: fetch_pr_comments is not running
InitTool ==
    /\ AuxIdle
    /\ RestStart
    /\ ~token
    /\ max_retries_v = 0
    /\ max_pages_v = 1
    /\ max_comments_v = MaxCommentsMin
    /\ ToolIdle
    /\ gql_token \in BOOLEAN
    /\ gql_max_retries_v \in 0..MaxRetries
    /\ gql_max_comments_v \in MaxCommentsChoices

\* neither fetch_pr_comments nor the tool is running
FetchersIdle ==
    /\ RestStart
    /\ ~token
    /\ max_retries_v = 0
    /\ max_pages_v = 1
    /\ max_comments_v = MaxCommentsMin
    /\ ToolIdle
    /\ gql_token = FALSE
    /\ gql_max_retries_v = 0
    /\ gql_max_comments_v = MaxCommentsMin

\* a 403 without quota-zero signal: no Retry-After and no X-RateLimit-Remaining "0"
IsSecondaryLimit(r) ==
    r.status = 403 /\ ~Truthy(r.retry_after) /\ r.remaining # H(<<"0">>)

\* a 200 answer with a list body and a rel="next" link
IsIdeal(r) ==
    /\ r.status = 200
    /\ r.body.kind = "list"
    /\ \E i \in 1..Len(r.link) : r.link[i].rel = "next"

(* ------------------------ decisions of the code ------------------------ *)

\* the jitter is added after the cap
CalculateBackoffDelayJitterLast(a, jitter) ==
    Min(BackoffCap, BackoffBase * Pow2(a)) + jitter

\* _calculate_backoff_delay with the jitter draw made explicit, in milliseconds
CalculateBackoffDelay(a, jitter) == Min(BackoffCap, BackoffBase * Pow2(a) + jitter)

\* variant of AttemptsRemain: the guard off by one
AttemptsRemainInclusive(a, max_retries) == a <= max_retries

\* `attempt < max_retries`, the guard of both counted retries of the executor
AttemptsRemain(a, max_retries) == a < max_retries

\* response.raise_for_status() raises httpx.HTTPStatusError
RaisesForStatus(status) == ~(200 <= status /\ status < 300)

\* variant of AuthFallbackApplies: the fallback is not limited to one use
AuthFallbackRepeated(r) == r.status = 401 /\ token

\* the 401 branch of handle_rest_status applies
AuthFallbackApplies(r) ==
    /\ r.status = 401
    /\ token
    /\ ~used_token_fallback
    /\ authorization = "Bearer"

\* the rate-limit branch of handle_rest_status applies
RateLimitApplies(r) ==
    /\ r.status \in {429, 403}
    /\ (Truthy(r.retry_after) \/ r.remaining = H(<<"0">>))

\* retry_after as handle_rest_status computes it, in seconds
RateLimitDelay(r) ==
    IF Truthy(r.retry_after)
    THEN IF IntParses(r.retry_after.text) THEN IntValue(r.retry_after.text)
         ELSE DefaultRetryAfter
    ELSE IF Truthy(r.reset)
    THEN IF IntParses(r.reset.text) THEN Max(IntValue(r.reset.text) - Now, 1)
         ELSE DefaultRetryAfter
    ELSE DefaultRetryAfter

\* variant of ServerErrorSeen: the 5xx is not recorded
ServerErrorForgotten(r) == had_server_error

\* had_server_error after handle_rest_status has seen the response
ServerErrorSeen(r) == had_server_error \/ Is5xx(r.status)

\* variant of FallbackScheme: the header is rebuilt with the same scheme
FallbackSchemeUnchanged == "Bearer"

\* the scheme handle_rest_status puts into headers["Authorization"]
FallbackScheme == "token"

\* handle_rest_status: its answer and the values it leaves in the fetch's state
HandleRestStatus(r) ==
    LET hse == ServerErrorSeen(r) IN
    IF AuthFallbackApplies(r)
    THEN [action |-> "retry", authorization |-> FallbackScheme, used |-> TRUE,
          hse |-> hse, slept |-> FALSE, seconds |-> 0]
    ELSE IF RateLimitApplies(r)
    THEN [action |-> "retry", authorization |-> authorization,
          used |-> used_token_fallback, hse |-> hse, slept |-> TRUE,
          seconds |-> RateLimitDelay(r)]
    ELSE [action |-> "none", authorization |-> authorization,
          used |-> used_token_fallback, hse |-> hse, slept |-> FALSE, seconds |-> 0]

\* variant of AttemptAfterHandlerRetry: the handler-driven retry is counted
AttemptAfterCountedHandlerRetry == attempt + 1

\* attempt after `if action == "retry": continue`
AttemptAfterHandlerRetry == attempt

\* the executor's own retry of a 5xx response
ServerErrorRetried(r) == Is5xx(r.status) /\ AttemptsRemain(attempt, max_retries_v)

\* variant of ReachedLimits: one page more than max_pages
ReachedLimitsPageLate(pages, comments) == pages > max_pages_v \/ comments >= max_comments_v

\* variant of ReachedLimits: the comment cap must be exceeded
ReachedLimitsCommentLate(pages, comments) == pages >= max_pages_v \/ comments > max_comments_v

\* `page_count >= max_pages_v or len(all_comments) >= max_comments_v`
ReachedLimits(pages, comments) == pages >= max_pages_v \/ comments >= max_comments_v

\* the target of the first entry of the Link header, whatever its rel
NextUrlOfAnyRel(link) == IF link = <<>> THEN 0 ELSE link[1].target

RECURSIVE NextUrl(_)
\* the target of the first rel="next" entry of the Link header, 0 when there is none
NextUrl(link) ==
    IF link = <<>> THEN 0
    ELSE IF link[1].rel = "next" THEN link[1].target
    ELSE NextUrl(Tail(link))

\* all_comments.extend(page_comments) cut at the comment cap
ExtendCommentsCapped(comments, body) ==
    Append(comments, Min(body.n, Max(0, max_comments_v - SumSeq(comments))))

\* all_comments.extend(page_comments): the whole page joins the list
ExtendComments(comments, body) == Append(comments, body.n)

\* a page is refused only for its body
PageRejectedForBodyOnly(h, r) == r.body.kind # "list"

\* the fetch returns None instead of the page: an earlier 5xx, or a body that is no list
PageRejected(h, r) == h.hse \/ r.body.kind # "list"

\* every exhausted connection error is re-raised
ErrorOutcomeAlwaysRaised(kind) == "request_error"

\* except httpx.TimeoutException: return None; except httpx.RequestError: raise
ErrorOutcome(kind) == IF kind = "timeout" THEN "null" ELSE "request_error"

\* every HTTPStatusError is re-raised
StatusOutcomeAlwaysRaised(status) == "http_error"

\* except httpx.HTTPStatusError: return None for a 5xx, raise otherwise
StatusOutcome(status) == IF Is5xx(status) THEN "null" ELSE "http_error"

\* what answered the GETs of the current run once r has answered the latest:
\* "errors" connection errors only, "5xx" server errors only, "other" or "mixed"
RunKindAfter(r) ==
    LET k == IF r.status = 0 THEN "errors" ELSE IF Is5xx(r.status) THEN "5xx" ELSE "other"
    IN IF run_kind \in {"empty", k} THEN k ELSE "mixed"

(* ------------------------------ actions -------------------------------- *)

\* client.get(page_url, headers=headers) is called and answered by r
\* (Raised(kind): by a connection-level error): the history of the GET
Get(r) ==
    /\ pc = "request"
    /\ UNCHANGED <<gql_vars, aux_vars>>
    /\ gets < MaxGets
    /\ gets' = gets + 1
    /\ sent_auth' = Append(sent_auth, authorization)
    /\ sent_url' = Append(sent_url, url)
    /\ first_status' = IF gets = 0 THEN r.status ELSE first_status
    /\ resp' = r
    /\ saw_5xx' = (saw_5xx \/ Is5xx(r.status))
    /\ secondary_run' = IF IsSecondaryLimit(r) THEN secondary_run + 1 ELSE 0
    /\ ideal' = (ideal /\ IsIdeal(r))

\* the state handle_rest_status leaves behind
Handled(h) ==
    /\ authorization' = h.authorization
    /\ used_token_fallback' = h.used
    /\ had_server_error' = h.hse
    /\ switches' = IF h.authorization # authorization THEN switches + 1 ELSE switches

\* variant of BackoffIndex: the delay is computed from the incremented counter
BackoffIndexIncremented == attempt + 1

\* `_calculate_backoff_delay(attempt)`: the index the executor gives to the calculator
BackoffIndex == attempt

\* asyncio.sleep(delay) with the backoff delay, then attempt += 1
BackoffAndCount(jitter) ==
    /\ sleeps' = sleeps + 1
    /\ last_sleep' = [kind |-> "backoff", ms |-> CalculateBackoffDelay(BackoffIndex, jitter)]
    /\ attempt' = attempt + 1
    /\ run_counted' = run_counted + 1

\* the fetch returns or raises
Finish(how) ==
    /\ pc' = "done"
    /\ outcome' = how

\* request_fn raises httpx.RequestError and attempts remain
RequestErrorRetry(kind, jitter) ==
    /\ Get(Raised(kind))
    /\ AttemptsRemain(attempt, max_retries_v)
    /\ BackoffAndCount(jitter)
    /\ run_gets' = run_gets + 1
    /\ run_kind' = RunKindAfter(Raised(kind))
    /\ event' = "error_retry"
    /\ UNCHANGED <<config, authorization, used_token_fallback, had_server_error, url,
                   page_count, all_comments, pc, outcome, run_handler_retries,
                   switches>>

\* request_fn raises httpx.RequestError and no attempt remains: the fetcher
\* returns None for a timeout and re-raises any other error
RequestErrorRaised(kind) ==
    /\ Get(Raised(kind))
    /\ ~AttemptsRemain(attempt, max_retries_v)
    /\ Finish(ErrorOutcome(kind))
    /\ run_gets' = run_gets + 1
    /\ run_kind' = RunKindAfter(Raised(kind))
    /\ event' = "error_raised"
    /\ UNCHANGED <<config, authorization, used_token_fallback, had_server_error, url,
                   page_count, all_comments, attempt, run_handler_retries, run_counted,
                   sleeps, last_sleep, switches>>

\* the status handler answers "retry": the executor loops at once
HandlerRetry(r) ==
    LET h == HandleRestStatus(r) IN
    /\ Get(r)
    /\ h.action = "retry"
    /\ Handled(h)
    /\ sleeps' = IF h.slept THEN sleeps + 1 ELSE sleeps
    /\ last_sleep' = IF h.slept THEN [kind |-> "rate_limit", ms |-> 1000 * h.seconds]
                     ELSE last_sleep
    /\ run_handler_retries' = run_handler_retries + 1
    /\ run_gets' = run_gets + 1
    /\ run_kind' = RunKindAfter(r)
    /\ event' = "handler_retry"
    /\ attempt' = AttemptAfterHandlerRetry
    /\ UNCHANGED <<config, url, page_count, all_comments, pc, outcome, run_counted>>

\* a 5xx response while attempts remain: backoff and a counted retry
ServerErrorRetry(r, jitter) ==
    LET h == HandleRestStatus(r) IN
    /\ Get(r)
    /\ h.action # "retry"
    /\ ServerErrorRetried(r)
    /\ Handled(h)
    /\ BackoffAndCount(jitter)
    /\ run_gets' = run_gets + 1
    /\ run_kind' = RunKindAfter(r)
    /\ event' = "server_error_retry"
    /\ UNCHANGED <<config, url, page_count, all_comments, pc, outcome,
                   run_handler_retries>>

\* raise_for_status raises: the fetcher returns None for a 5xx and re-raises otherwise
StatusErrorRaised(r) ==
    LET h == HandleRestStatus(r) IN
    /\ Get(r)
    /\ h.action # "retry"
    /\ ~ServerErrorRetried(r)
    /\ RaisesForStatus(r.status)
    /\ Handled(h)
    /\ Finish(StatusOutcome(r.status))
    /\ run_gets' = run_gets + 1
    /\ run_kind' = RunKindAfter(r)
    /\ event' = "status_raised"
    /\ UNCHANGED <<config, url, page_count, all_comments, attempt,
                   run_handler_retries, run_counted, sleeps, last_sleep>>

\* the executor returns the response and the fetcher processes the page
PageReturned(r) ==
    LET h == HandleRestStatus(r)
        comments == ExtendComments(all_comments, r.body)
        next_url == NextUrl(r.link)
    IN
    /\ Get(r)
    /\ h.action # "retry"
    /\ ~ServerErrorRetried(r)
    /\ ~RaisesForStatus(r.status)
    /\ Handled(h)
    /\ UNCHANGED <<config, sleeps, last_sleep>>
    /\ IF PageRejected(h, r)
       THEN /\ Finish("null")
            /\ event' = "page_rejected"
            /\ run_gets' = run_gets + 1
            /\ run_kind' = RunKindAfter(r)
            /\ UNCHANGED <<url, page_count, all_comments, attempt,
                           run_handler_retries, run_counted>>
       ELSE /\ all_comments' = comments
            /\ page_count' = page_count + 1
            /\ event' = "page_appended"
            /\ IF ReachedLimits(page_count + 1, SumSeq(comments)) \/ next_url = 0
               THEN /\ Finish("list")
                    /\ run_gets' = run_gets + 1
                    /\ run_kind' = RunKindAfter(r)
                    /\ UNCHANGED <<url, attempt, run_handler_retries, run_counted>>
               ELSE \* the next iteration starts a new run of the executor
                    /\ url' = next_url
                    /\ attempt' = 0
                    /\ run_gets' = 0
                    /\ run_kind' = "empty"
                    /\ run_handler_retries' = 0
                    /\ run_counted' = 0
                    /\ UNCHANGED <<pc, outcome>>

\* the steps that end the fetch by an error first, then the retries, then the pages
Next ==
    \/ \E kind \in ErrorKinds : RequestErrorRaised(kind)
    \/ \E r \in Responses : StatusErrorRaised(r)
    \/ \E kind \in ErrorKinds, jitter \in Jitters : RequestErrorRetry(kind, jitter)
    \/ \E r \in Responses, jitter \in Jitters : ServerErrorRetry(r, jitter)
    \/ \E r \in Responses : HandlerRetry(r)
    \/ \E r \in Responses : PageReturned(r)

Spec == Init /\ [][Next]_vars

(* ------------------- two calls of fetch_pr_comments -------------------- *)

\* the locals of the running call of fetch_pr_comments and of its executor, with the
\* history of the call
Locals ==
    [token |-> token,
     max_retries_v |-> max_retries_v,
     max_pages_v |-> max_pages_v,
     max_comments_v |-> max_comments_v,
     authorization |-> authorization,
     used_token_fallback |-> used_token_fallback,
     had_server_error |-> had_server_error,
     url |-> url,
     page_count |-> page_count,
     all_comments |-> all_comments,
     attempt |-> attempt,
     pc |-> pc,
     outcome |-> outcome,
     gets |-> gets,
     run_gets |-> run_gets,
     run_handler_retries |-> run_handler_retries,
     run_counted |-> run_counted,
     sleeps |-> sleeps,
     last_sleep |-> last_sleep,
     resp |-> resp,
     sent_auth |-> sent_auth,
     sent_url |-> sent_url,
     first_status |-> first_status,
     switches |-> switches,
     saw_5xx |-> saw_5xx,
     secondary_run |-> secondary_run,
     run_kind |-> run_kind,
     ideal |-> ideal,
     event |-> event]

\* the answers of the script: a 401, a 500, a page of 50 comments with and without a
\* rel="next" link, a 429 with Retry-After and a connection error
PairAnswers ==
    { r \in PlainResponses : r.status \in {401, 500} }
    \cup { r \in OkResponses : r.body = [kind |-> "list", n |-> 50]
                                /\ r.link \in {NoLink, <<[target |-> 2, rel |-> "next"]>>} }
    \cup { r \in LimitResponses : r.status = 429 /\ r.retry_after = H(<<"5">>)
                                   /\ r.remaining = Absent /\ r.reset = Absent }
    \cup { Raised("connect") }

\* the mocked server: the i-th GET of a fetch is answered by the i-th entry
Scripts == [1..MaxGets -> PairAnswers]

\* the GET about to be sent is answered by r
Scripted(r) == gets < Len(script) /\ script[gets + 1] = r

\* the fallback flag is kept in one place for all calls
FallbackFlagShared(saved) == used_token_fallback

\* used_token_fallback is a local of the call: the resumed call finds its own
FallbackFlagOf(saved) == saved.used_token_fallback

\* the running call is suspended at an await (a GET or a sleep) and the event loop
\* resumes the other call
Switch ==
    /\ script # <<>>
    /\ parked' = Locals
    /\ used_token_fallback' = FallbackFlagOf(parked)
    /\ token' = parked.token
    /\ max_retries_v' = parked.max_retries_v
    /\ max_pages_v' = parked.max_pages_v
    /\ max_comments_v' = parked.max_comments_v
    /\ authorization' = parked.authorization
    /\ had_server_error' = parked.had_server_error
    /\ url' = parked.url
    /\ page_count' = parked.page_count
    /\ all_comments' = parked.all_comments
    /\ attempt' = parked.attempt
    /\ pc' = parked.pc
    /\ outcome' = parked.outcome
    /\ gets' = parked.gets
    /\ run_gets' = parked.run_gets
    /\ run_handler_retries' = parked.run_handler_retries
    /\ run_counted' = parked.run_counted
    /\ sleeps' = parked.sleeps
    /\ last_sleep' = parked.last_sleep
    /\ resp' = parked.resp
    /\ sent_auth' = parked.sent_auth
    /\ sent_url' = parked.sent_url
    /\ first_status' = parked.first_status
    /\ switches' = parked.switches
    /\ saw_5xx' = parked.saw_5xx
    /\ secondary_run' = parked.secondary_run
    /\ run_kind' = parked.run_kind
    /\ ideal' = parked.ideal
    /\ event' = parked.event
    /\ UNCHANGED <<gql_vars, rs_vars, call, script>>

\* two calls of fetch_pr_comments with the same arguments and environment, answered
\* by the same script
InitPair ==
    /\ ToolIdle
    /\ gql_token = FALSE
    /\ gql_max_retries_v = 0
    /\ gql_max_comments_v = MaxCommentsMin
    /\ rs_strategy = "branch"
    /\ rs_branch = 0
    /\ rs_pc = "idle"
    /\ rs_outcome = RsNoOutcome
    /\ rs_requests = <<>>
    /\ rs_resp = RsNoResponse
    /\ rs_selected = NoPr
    /\ call = NoCall
    /\ RestStart
    /\ max_comments_v = MaxCommentsMin
    /\ parked = Locals
    /\ script \in Scripts

NextPair ==
    \/ Switch
    \/ \E kind \in ErrorKinds : Scripted(Raised(kind)) /\ RequestErrorRaised(kind)
    \/ \E r \in Responses : Scripted(r) /\ StatusErrorRaised(r)
    \/ \E kind \in ErrorKinds, jitter \in Jitters :
            Scripted(Raised(kind)) /\ RequestErrorRetry(kind, jitter)
    \/ \E r \in Responses, jitter \in Jitters : Scripted(r) /\ ServerErrorRetry(r, jitter)
    \/ \E r \in Responses : Scripted(r) /\ HandlerRetry(r)
    \/ \E r \in Responses : Scripted(r) /\ PageReturned(r)

SpecPair == InitPair /\ [][NextPair]_vars

(* --------------------- the GraphQL fetch and the tool ------------------- *)

\* what the tool receives as pr_url, "none" being a falsy value
PrUrls == {"valid", "malformed", "none"}

\* how the resolution of an omitted pr_url ends: a URL, a ValueError or another error
Resolutions == {"valid", "malformed", "value_error", "runtime_error"}

\* the element of a returned list that carries the "error" key
ErrorElement == [error |-> TRUE, n |-> 1]

\* the comments of the fetch as elements of the returned list: none has an "error" key
ToolComments(comments) == [i \in 1..Len(comments) |-> [error |-> FALSE, n |-> comments[i]]]

\* get_pr_info accepts every URL
GetPrInfoAcceptsAll(u) == FALSE

\* get_pr_info raises ValueError: the URL does not match the pull request pattern
GetPrInfoRaises(u) == u = "malformed"

\* the errors entry of the answer is not looked at
ErrorsIgnored(body) == FALSE

\* "errors" in data
HasErrors(body) == body.errors

\* while has_next_page and len(all_comments) < max_comments_v
GqlLoopContinues(has_next, comments) ==
    has_next /\ SumSeq(comments) < gql_max_comments_v

\* the comments one thread adds to a list of len comments: the inner loop appends a
\* comment and only then breaks if the list has max_comments_v entries, so it runs
\* once at least for a thread that has comments and up to the cap otherwise
CommentsTaken(len, remaining) ==
    IF remaining = 0 THEN 0
    ELSE Min(remaining, Max(1, gql_max_comments_v - len))

RECURSIVE ProcessThreads(_, _)
\* for thread in threads: the inner loop runs for every thread of the page
ProcessThreads(comments, threads) ==
    IF threads = <<>> THEN comments
    ELSE LET taken == CommentsTaken(SumSeq(comments), Head(threads))
         IN ProcessThreads(IF taken = 0 THEN comments ELSE Append(comments, taken),
                           Tail(threads))

\* what fetch_pr_review_comments returns when the fetch ends with how
ToolResult(how, comments) ==
    IF how = "list" THEN ToolComments(comments)
    ELSE IF how = "value_error" THEN <<ErrorElement>>
    ELSE <<>>

\* the fetch returns or raises, and fetch_pr_review_comments with it: a list is
\* returned, None becomes [], a ValueError becomes the error list, any other
\* exception leaves the tool
GqlFinish(how, comments) ==
    /\ gql_pc' = "done"
    /\ gql_outcome' = how
    /\ tool_pc' = IF how \in {"http_error", "request_error"} THEN "raised" ELSE "returned"
    /\ tool_result' = ToolResult(how, comments)
    /\ hc_outcome' = HandlerOutcome(IF how \in {"http_error", "request_error"}
                                     THEN "raised" ELSE "returned", hc_args'.output)

\* handle_call_tool raises the ValueError of _validate_int: fetch_pr_review_comments
\* is not called
ToolCallRejected(args) ==
    /\ tool_pc = "idle"
    /\ hc_outcome = "none"
    /\ ~LimitsValid(args)
    /\ hc_args' = args
    /\ hc_outcome' = "value_error"
    /\ UNCHANGED <<rest_vars, aux_vars, gql_config, pr_url, tool_pc, tool_result,
                   gql_all_comments, gql_cursor, gql_has_next_page, gql_attempt, gql_pc,
                   gql_outcome, posts, gql_pages, gql_sleeps, gql_resp, gql_sent_cursor,
                   gql_secondary_run>>

\* handle_call_tool has validated the limits and calls fetch_pr_review_comments:
\* the URL is resolved when omitted and parsed, and fetch_pr_comments_graphql
\* starts, returning None at once without a token
ToolCall(u, resolved, args) ==
    LET target == IF u = "none" THEN resolved ELSE u IN
    /\ tool_pc = "idle"
    /\ hc_outcome = "none"
    /\ LimitsValid(args)
    /\ hc_args' = args
    /\ u # "none" => resolved = "valid"
    /\ pr_url' = u
    /\ UNCHANGED <<rest_vars, aux_vars, gql_config, gql_all_comments, gql_cursor, gql_has_next_page,
                   gql_attempt, posts, gql_pages, gql_sleeps, gql_resp, gql_sent_cursor,
                   gql_secondary_run>>
    /\ IF target = "runtime_error"
       THEN /\ tool_pc' = "raised"
            /\ hc_outcome' = HandlerOutcome("raised", args.output)
            /\ UNCHANGED <<tool_result, gql_pc, gql_outcome>>
       ELSE IF target = "value_error" \/ GetPrInfoRaises(target)
       THEN /\ tool_pc' = "returned"
            /\ tool_result' = <<ErrorElement>>
            /\ hc_outcome' = HandlerOutcome("returned", args.output)
            /\ UNCHANGED <<gql_pc, gql_outcome>>
       ELSE IF ~gql_token
       THEN GqlFinish("null", gql_all_comments)
       ELSE /\ tool_pc' = "fetching"
            /\ gql_pc' = "post"
            /\ UNCHANGED <<tool_result, gql_outcome, hc_outcome>>

\* client.post(url, headers=headers, json=...) is called and answered by r
\* (GqlRaised(kind): by a connection-level error): the history of the POST
Post(r) ==
    /\ gql_pc = "post"
    /\ posts < MaxPosts
    /\ posts' = posts + 1
    /\ gql_resp' = r
    /\ gql_sent_cursor' = Append(gql_sent_cursor, gql_cursor)
    /\ gql_secondary_run' = IF IsSecondaryLimit(r) THEN gql_secondary_run + 1 ELSE 0
    /\ UNCHANGED <<rest_vars, aux_vars, gql_config, pr_url, hc_args>>

\* asyncio.sleep(delay) with the backoff delay, then attempt += 1
GqlBackoffAndCount ==
    /\ gql_sleeps' = gql_sleeps + 1
    /\ gql_attempt' = gql_attempt + 1

\* request_fn raises httpx.RequestError and attempts remain
GqlRequestErrorRetry(kind) ==
    /\ Post(GqlRaised(kind))
    /\ AttemptsRemain(gql_attempt, gql_max_retries_v)
    /\ GqlBackoffAndCount
    /\ UNCHANGED <<tool_pc, tool_result, gql_all_comments, gql_cursor, gql_has_next_page,
                   gql_pc, gql_outcome, gql_pages, hc_outcome>>

\* request_fn raises httpx.RequestError and no attempt remains: the fetcher
\* returns None for a timeout and re-raises any other error
GqlRequestErrorRaised(kind) ==
    /\ Post(GqlRaised(kind))
    /\ ~AttemptsRemain(gql_attempt, gql_max_retries_v)
    /\ GqlFinish(ErrorOutcome(kind), gql_all_comments)
    /\ UNCHANGED <<gql_all_comments, gql_cursor, gql_has_next_page, gql_attempt,
                   gql_pages, gql_sleeps>>

\* a 5xx response while attempts remain: backoff and a counted retry
GqlServerErrorRetry(r) ==
    /\ Post(r)
    /\ Is5xx(r.status)
    /\ AttemptsRemain(gql_attempt, gql_max_retries_v)
    /\ GqlBackoffAndCount
    /\ UNCHANGED <<tool_pc, tool_result, gql_all_comments, gql_cursor, gql_has_next_page,
                   gql_pc, gql_outcome, gql_pages, hc_outcome>>

\* raise_for_status raises: no status handler is installed and the fetcher catches
\* no httpx.HTTPStatusError, so the error leaves the fetch
GqlStatusErrorRaised(r) ==
    /\ Post(r)
    /\ ~(Is5xx(r.status) /\ AttemptsRemain(gql_attempt, gql_max_retries_v))
    /\ RaisesForStatus(r.status)
    /\ GqlFinish("http_error", gql_all_comments)
    /\ UNCHANGED <<gql_all_comments, gql_cursor, gql_has_next_page, gql_attempt,
                   gql_pages, gql_sleeps>>

\* the executor returns the response and the fetcher processes the page
GqlPageReturned(r) ==
    LET comments == ProcessThreads(gql_all_comments, r.body.threads) IN
    /\ Post(r)
    /\ ~(Is5xx(r.status) /\ AttemptsRemain(gql_attempt, gql_max_retries_v))
    /\ ~RaisesForStatus(r.status)
    /\ UNCHANGED gql_sleeps
    /\ IF ~r.body.json
       THEN \* response.json() raises json.JSONDecodeError, a ValueError
            /\ GqlFinish("value_error", gql_all_comments)
            /\ UNCHANGED <<gql_all_comments, gql_cursor, gql_has_next_page, gql_attempt,
                           gql_pages>>
       ELSE IF HasErrors(r.body) \/ ~r.body.pr
       THEN /\ GqlFinish("null", gql_all_comments)
            /\ UNCHANGED <<gql_all_comments, gql_cursor, gql_has_next_page, gql_attempt,
                           gql_pages>>
       ELSE /\ gql_all_comments' = comments
            /\ gql_has_next_page' = r.body.info.has_next
            /\ gql_cursor' = r.body.info.end_cursor
            /\ gql_pages' = gql_pages + 1
            /\ IF GqlLoopContinues(r.body.info.has_next, comments)
               THEN \* the next iteration starts a new run of the executor
                    /\ gql_attempt' = 0
                    /\ UNCHANGED <<tool_pc, tool_result, gql_pc, gql_outcome, hc_outcome>>
               ELSE /\ GqlFinish("list", comments)
                    /\ UNCHANGED gql_attempt

NextTool ==
    \/ \E args \in ToolArgs : ToolCallRejected(args)
    \/ \E u \in PrUrls, resolved \in Resolutions, args \in ToolArgs : ToolCall(u, resolved, args)
    \/ \E kind \in ErrorKinds : GqlRequestErrorRaised(kind)
    \/ \E r \in GqlResponses : GqlStatusErrorRaised(r)
    \/ \E kind \in ErrorKinds : GqlRequestErrorRetry(kind)
    \/ \E r \in GqlResponses : GqlServerErrorRetry(r)
    \/ \E r \in GqlResponses : GqlPageReturned(r)

SpecTool == InitTool /\ [][NextTool]_vars

(* ------------------------------ resolve_pr_url ------------------------- *)

\* select_strategy values, one of them not a strategy
Strategies == {"branch", "latest", "first", "error", "newest"}

\* the branch argument: 0 is None, 1 and 2 are branch names
Branches == {0, 1, 2}

\* an open PR of a response: number, head.ref, html_url and url (0 is a missing or
\* null field)
Pr(number, ref, html_url, api_url) ==
    [number |-> number, ref |-> ref, html_url |-> html_url, url |-> api_url]

PrEntries ==
    { Pr(5, 1, 105, 205), Pr(2, 2, 0, 202), Pr(10, 1, 110, 210), Pr(7, 2, 0, 0) }

\* the JSON lists a pulls query may answer: up to three different PRs in any order
PrLists ==
    {<<>>} \cup { <<a>> : a \in PrEntries }
           \cup { l \in PrEntries \X PrEntries : l[1] # l[2] }
           \cup { l \in PrEntries \X PrEntries \X PrEntries :
                     l[1] # l[2] /\ l[1] # l[3] /\ l[2] # l[3] }

RsResponses ==
    { [status |-> 200, data |-> l, raised |-> "none"] : l \in PrLists }
    \cup { [status |-> st, data |-> <<>>, raised |-> "none"] : st \in {403, 500} }
    \cup { [status |-> 0, data |-> <<>>, raised |-> kind] : kind \in ErrorKinds }

\* if select_strategy not in {"branch", "latest", "first", "error"}
StrategyValid(strategy) == strategy \in {"branch", "latest", "first", "error"}

\* if branch and select_strategy in {"branch", "error"}
UsesFilter(strategy, branch) == branch # 0 /\ strategy \in {"branch", "error"}

\* pr.get("html_url") or pr.get("url")
UrlOf(pr) == IF pr.html_url # 0 THEN pr.html_url ELSE pr.url

\* the last entry of the list
LastPr(prs) == prs[Len(prs)]

\* min(pr_candidates, key=lambda p: int(p.get("number", 1 << 30))): the first entry
\* among those of the smallest number
MinPr(prs) ==
    prs[CHOOSE i \in 1..Len(prs) :
            /\ \A j \in 1..Len(prs) : prs[i].number <= prs[j].number
            /\ \A j \in 1..(i - 1) : prs[j].number # prs[i].number]

\* the last entry whose head.ref is the branch, 0 when there is none
LastOfBranch(prs, branch) ==
    LET hits == { i \in 1..Len(prs) : prs[i].ref = branch }
    IN IF hits = {} THEN 0 ELSE CHOOSE i \in hits : \A j \in hits : i >= j

\* the first entry whose head.ref is the branch, 0 when there is none
FirstOfBranch(prs, branch) ==
    LET hits == { i \in 1..Len(prs) : prs[i].ref = branch }
    IN IF hits = {} THEN 0 ELSE CHOOSE i \in hits : \A j \in hits : i <= j

RsReturn(pr) == [kind |-> "url", url |-> UrlOf(pr), msg |-> "none"]

RsRaise(kind, msg) == [kind |-> kind, url |-> 0, msg |-> msg]

\* the empty branch-filtered answer falls back to the general list for every strategy
NoBranchPrFatalNever(strategy) == FALSE

\* if select_strategy == "error": raise ValueError("No open PR found for branch ...")
NoBranchPrFatal(strategy) == strategy = "error"

\* resolve_pr_url is called with a strategy that is none: ValueError before any request
ResolveRejected ==
    /\ rs_pc = "start"
    /\ ~StrategyValid(rs_strategy)
    /\ rs_pc' = "done"
    /\ rs_outcome' = RsRaise("value_error", "invalid_strategy")
    /\ UNCHANGED <<rest_vars, gql_vars, call, parked, script, rs_strategy, rs_branch,
                   rs_requests, rs_resp, rs_selected>>

\* client.get(url, headers=headers) is answered by r: the history of the GET
RsGet(which, r) ==
    /\ rs_requests' = Append(rs_requests, which)
    /\ rs_resp' = r
    /\ UNCHANGED <<rest_vars, gql_vars, call, parked, script, rs_strategy, rs_branch>>

\* the GET raises or raise_for_status does: the exception leaves resolve_pr_url
RsFailed(r) == r.raised # "none" \/ RaisesForStatus(r.status)

RsFailure(r) ==
    IF r.raised # "none" THEN RsRaise("request_error", r.raised)
    ELSE RsRaise("http_error", "status")

\* the branch-filtered query ?state=open&head=owner:branch and what follows it
FilteredGet(r) ==
    /\ rs_pc = "start"
    /\ StrategyValid(rs_strategy)
    /\ UsesFilter(rs_strategy, rs_branch)
    /\ RsGet("filtered", r)
    /\ rs_selected' = IF ~RsFailed(r) /\ r.data # <<>> THEN r.data[1] ELSE NoPr
    /\ IF RsFailed(r)
       THEN rs_pc' = "done" /\ rs_outcome' = RsFailure(r)
       ELSE IF r.data # <<>>
       THEN rs_pc' = "done" /\ rs_outcome' = RsReturn(r.data[1])
       ELSE IF NoBranchPrFatal(rs_strategy)
       THEN rs_pc' = "done" /\ rs_outcome' = RsRaise("value_error", "no_pr_for_branch")
       ELSE rs_pc' = "general" /\ UNCHANGED rs_outcome

\* the entry of the general list whose URL is returned, NoPr when the call raises
GeneralChoice(r) ==
    IF RsFailed(r) \/ r.data = <<>> THEN NoPr
    ELSE IF rs_strategy = "branch" /\ rs_branch # 0
    THEN IF FirstOfBranch(r.data, rs_branch) = 0 THEN NoPr
         ELSE r.data[FirstOfBranch(r.data, rs_branch)]
    ELSE IF rs_strategy = "first" THEN MinPr(r.data)
    ELSE r.data[1]

\* the general query ?state=open&sort=updated&direction=desc and the selection
GeneralGet(r) ==
    /\ \/ rs_pc = "general"
       \/ rs_pc = "start" /\ StrategyValid(rs_strategy) /\ ~UsesFilter(rs_strategy, rs_branch)
    /\ RsGet("general", r)
    /\ rs_pc' = "done"
    /\ rs_selected' = GeneralChoice(r)
    /\ rs_outcome' =
          IF RsFailed(r) THEN RsFailure(r)
          ELSE IF r.data = <<>> THEN RsRaise("value_error", "no_open_prs")
          ELSE IF rs_strategy = "branch" /\ rs_branch # 0
          THEN IF FirstOfBranch(r.data, rs_branch) = 0
               THEN RsRaise("value_error", "no_pr_for_branch")
               ELSE RsReturn(r.data[FirstOfBranch(r.data, rs_branch)])
          ELSE IF rs_strategy = "latest" THEN RsReturn(r.data[1])
          ELSE IF rs_strategy = "first" THEN RsReturn(MinPr(r.data))
          ELSE RsReturn(r.data[1])

\* one call of resolve_pr_url
InitResolve ==
    /\ FetchersIdle
    /\ call = NoCall
    /\ parked = NoParked
    /\ script = <<>>
    /\ rs_strategy \in Strategies
    /\ rs_branch \in Branches
    /\ rs_pc = "start"
    /\ rs_outcome = RsNoOutcome
    /\ rs_requests = <<>>
    /\ rs_resp = RsNoResponse
    /\ rs_selected = NoPr

NextResolve ==
    \/ ResolveRejected
    \/ \E r \in RsResponses : FilteredGet(r)
    \/ \E r \in RsResponses : GeneralGet(r)

SpecResolve == InitResolve /\ [][NextResolve]_vars

(* ---------------------------- pure helpers ---------------------------- *)

\* the float settings, in thousandths of a second
FloatSettings ==
    { [name |-> "HTTP_TIMEOUT", default |-> 30000, min_v |-> 1000, max_v |-> 300000],
      [name |-> "HTTP_CONNECT_TIMEOUT", default |-> 10000, min_v |-> 1000, max_v |-> 60000] }

\* environment values of a float setting
FloatTexts == {"30", "0.5", "999", "-5", "45.5", "nan", "inf", "-inf", "abc", ""}

\* float(text): the number in thousandths, a special value, or ValueError
ToFloat(text) ==
    CASE text = "30" -> FloatV(30000)
      [] text = "0.5" -> FloatV(500)
      [] text = "999" -> FloatV(999000)
      [] text = "-5" -> FloatV(-5000)
      [] text = "45.5" -> FloatV(45500)
      [] text = "nan" -> SpecialV("nan")
      [] text = "inf" -> SpecialV("inf")
      [] text = "-inf" -> SpecialV("ninf")
      [] OTHER -> NoneV

\* x < y of floats: false whenever one of them is nan
FloatLt(x, y) ==
    IF x.special = "nan" \/ y.special = "nan" THEN FALSE
    ELSE IF x.special = "ninf" THEN y.special # "ninf"
    ELSE IF x.special = "inf" THEN FALSE
    ELSE IF y.special = "inf" THEN TRUE
    ELSE IF y.special = "ninf" THEN FALSE
    ELSE x.n < y.n

\* min(a, b) and max(a, b) of Python: the first argument unless the second beats it
PyMin(a, b) == IF FloatLt(b, a) THEN b ELSE a
PyMax(a, b) == IF FloatLt(a, b) THEN b ELSE a

\* _float_conf(name, default, min_v, max_v) with os.getenv(name) = env
FloatConf(setting, env) ==
    LET parsed == IF env.present THEN ToFloat(env.text) ELSE FloatV(setting.default)
    IN IF parsed = NoneV THEN Returned(FloatV(setting.default))
       ELSE Returned(PyMax(FloatV(setting.min_v), PyMin(FloatV(setting.max_v), parsed)))

\* the jitter draws of random.uniform(0, 0.25), in milliseconds
JitterDraws == { 25 * k : k \in 0..10 }

\* an environment variable: unset, or set to a text
EnvOf(texts) == {[present |-> FALSE, text |-> <<>>]} \cup { [present |-> TRUE, text |-> t] : t \in texts }

\* the arguments and the result of a call are recorded
Called(fn, limit, arg, env, result) ==
    /\ call' = [fn |-> fn, limit |-> limit, arg |-> arg, env |-> env, result |-> result]
    /\ UNCHANGED <<rest_vars, gql_vars, rs_vars, parked, script>>

NoEnv == [present |-> FALSE, text |-> <<>>]

ValidateIntCall(limit, value) ==
    /\ call = NoCall
    /\ Called("_validate_int", limit, value, NoEnv, ValidateInt(limit, value))

IntConfCall(limit, override, env) ==
    /\ call = NoCall
    /\ Called("_int_conf", limit, override, env, IntConf(limit, override, env))

ClampIntValuesCall(limit, v) ==
    /\ call = NoCall
    /\ Called("clamp_int_values", limit, v, NoEnv, ClampIntValues(limit, v))

FloatConfCall(setting, env) ==
    /\ call = NoCall
    /\ Called("_float_conf", setting, NoneV, env, FloatConf(setting, env))

BackoffCall(a, jitter) ==
    /\ call = NoCall
    /\ Called("_calculate_backoff_delay", [name |-> "attempt", n |-> a], IntV(jitter), NoEnv,
              Returned(CalculateBackoffDelay(a, jitter)))

\* the author of a GraphQL comment: null, an object without login, or a login
Authors == {"null", "nologin", "alice"}

\* the authors of the comments of one thread
AuthorLists ==
    {<<>>} \cup { <<a>> : a \in Authors } \cup { <<a, b>> : a \in Authors, b \in Authors }

\* isResolved, isOutdated and the login of resolvedBy ("none" for a null resolvedBy)
ThreadFlags ==
    { [is_resolved |-> FALSE, is_outdated |-> FALSE, resolved_by |-> "none"],
      [is_resolved |-> TRUE, is_outdated |-> FALSE, resolved_by |-> "bob"],
      [is_resolved |-> TRUE, is_outdated |-> TRUE, resolved_by |-> "bob"],
      [is_resolved |-> FALSE, is_outdated |-> TRUE, resolved_by |-> "none"] }

\* the t-th review thread of a page: the body of its k-th comment is 10 * t + k
GqlThread(t, flags, authors) ==
    [is_resolved |-> flags.is_resolved, is_outdated |-> flags.is_outdated,
     resolved_by |-> flags.resolved_by,
     comments |-> [k \in 1..Len(authors) |-> [author |-> authors[k], body |-> 10 * t + k]]]

\* reviewThreads.nodes of a page: up to two threads
GqlThreadPages ==
    {<<>>} \cup { <<GqlThread(1, f, a)>> : f \in ThreadFlags, a \in AuthorLists }
           \cup { <<GqlThread(1, f, a), GqlThread(2, g, b)>> :
                     f \in ThreadFlags, a \in AuthorLists, g \in ThreadFlags, b \in AuthorLists }

\* len(all_comments) when the page arrives, below the cap MaxCommentsMin
CommentsBefore == {0, MaxCommentsMin - 2, MaxCommentsMin - 1}

\* the login is copied as it is
LoginOfRaw(author) == author

\* (comment.get("author") or {}).get("login") or "unknown"
LoginOf(author) == IF author \in {"null", "nologin"} THEN "unknown" ELSE author

\* review_comment: the comment in REST-like form with the fields of its thread
ReviewComment(thread, comment) ==
    [login |-> LoginOf(comment.author), body |-> comment.body,
     is_resolved |-> thread.is_resolved, is_outdated |-> thread.is_outdated,
     resolved_by |-> thread.resolved_by]

\* for comment in comments: what the inner loop appends for one thread
ThreadComments(len, thread) ==
    [k \in 1..CommentsTaken(len, Len(thread.comments)) |->
        ReviewComment(thread, thread.comments[k])]

RECURSIVE PageComments(_, _)
\* for thread in threads: what the page appends to a list of len comments
PageComments(len, threads) ==
    IF threads = <<>> THEN <<>>
    ELSE LET first == ThreadComments(len, Head(threads))
         IN first \o PageComments(len + Len(first), Tail(threads))

\* the threads of one page are processed
PageCommentsCall(len, threads) ==
    /\ call = NoCall
    /\ Called("process_threads", [name |-> "len", n |-> len], threads, NoEnv,
              Returned(PageComments(len, threads)))

\* owner, repo and branch names as the environment or git may hold them
Names == { <<>>, <<" ">>, <<"a">>, <<"B">>, <<" ", "a">>, <<"a", " ">> }

\* host names: "h" is github.com, the default of GH_HOST
Hosts == { <<"h">>, <<"H">>, <<"h", " ">> }

\* the default of os.getenv("GH_HOST", "github.com")
DefaultHost == <<"h">>

\* MCP_PR_OWNER, MCP_PR_REPO, MCP_PR_BRANCH and GH_HOST
GitEnvs == [owner : EnvOf(Names), repo : EnvOf(Names), branch : EnvOf(Names), host : EnvOf(Hosts)]

\* what dulwich finds: no repository, no remote, a remote URL that no pattern
\* matches, or the host, owner and repo groups of the matching pattern; and the
\* branch of HEAD, <<>> when none can be determined
GitStates ==
    { [repo_found |-> FALSE, remote |-> "none", host |-> <<>>, owner |-> <<>>, repo |-> <<>>,
       branch |-> <<>>] }
    \cup { [repo_found |-> TRUE, remote |-> rm, host |-> <<>>, owner |-> <<>>, repo |-> <<>>,
            branch |-> <<"a">>] : rm \in {"none", "unsupported"} }
    \cup { [repo_found |-> TRUE, remote |-> "parsed", host |-> h, owner |-> o, repo |-> <<"a">>,
            branch |-> b] : h \in Hosts, o \in {<<"a">>, <<"B">>}, b \in {<<>>, <<"a">>, <<"B">>} }

\* GitContext(host=..., owner=..., repo=..., branch=...): a plain dataclass
GitContext(host, owner, repo, branch) ==
    Returned([host |-> host, owner |-> owner, repo |-> repo, branch |-> branch])

\* if env_owner and env_repo and env_branch
EnvOverrides(env) ==
    /\ env.owner.present /\ env.owner.text # <<>>
    /\ env.repo.present /\ env.repo.text # <<>>
    /\ env.branch.present /\ env.branch.text # <<>>

\* git_detect_repo_branch: the environment overrides, else the repository
GitDetectRepoBranch(env, git) ==
    IF EnvOverrides(env)
    THEN GitContext(IF env.host.present THEN env.host.text ELSE DefaultHost,
                    env.owner.text, env.repo.text, env.branch.text)
    ELSE IF ~git.repo_found THEN RaisedError("ValueError")
    ELSE IF git.remote # "parsed" THEN RaisedError("ValueError")
    ELSE IF git.branch = <<>> THEN RaisedError("ValueError")
    ELSE GitContext(git.host, git.owner, git.repo, git.branch)

\* the repository is not looked at when the overrides are complete
NoGit == CHOOSE git \in GitStates : ~git.repo_found

\* git_detect_repo_branch with the three overrides set
GitDetectEnvCall(env) ==
    /\ call = NoCall
    /\ EnvOverrides(env)
    /\ Called("git_detect_repo_branch", NoGit, NoneV, env, GitDetectRepoBranch(env, NoGit))

\* git_detect_repo_branch without the overrides: the repository is read
GitDetectGitCall(env, git) ==
    /\ call = NoCall
    /\ ~EnvOverrides(env)
    /\ Called("git_detect_repo_branch", git, NoneV, env, GitDetectRepoBranch(env, git))

\* a URL is a sequence of pieces: "S" is the text https://, "T" the text http://,
\* "P" the text pull, "I" the text issues, "N" a newline; the others are characters
UrlParts ==
    [prefix : { <<"S">>, <<"T">>, <<>> },
     host : { <<"a">>, <<>>, <<"a", "?">> },
     owner : { <<"a">>, <<>>, <<"a", "/", "a">> },
     kind : { "P", "I" },
     number : { <<"1">>, <<"1", "2">>, <<>>, <<"1", "a">>, <<"a">> },
     suffix : { <<>>, <<"/">>, <<"/", "a">>, <<"?", "a">>, <<"#", "a">>,
                <<"/", "a", "?", "a", "#", "a">>, <<"a">>, <<"N">> }]

\* the text of a URL put together from its parts, the repo being "a"
UrlText(parts) ==
    parts.prefix \o parts.host \o <<"/">> \o parts.owner
        \o <<"/", "a", "/", parts.kind, "/">> \o parts.number \o parts.suffix

\* the character class [^/]: the pieces that hold no slash
NoSlash(text) == \A i \in 1..Len(text) : text[i] \notin {"/", "S", "T"}

\* the character class \d
AllDigits(text) == \A i \in 1..Len(text) : text[i] \in {"1", "2"}

\* (?:[/?#].*)?$ : nothing, or one of / ? # and then no newline up to the end, where
\* $ also matches before a newline that ends the text
TailMatches(rest) ==
    LET body == IF rest # <<>> /\ rest[Len(rest)] = "N"
                THEN SubSeq(rest, 1, Len(rest) - 1) ELSE rest
    IN \/ body = <<>>
       \/ /\ body[1] \in {"/", "?", "#"}
          /\ \A i \in 2..Len(body) : body[i] # "N"

\* re.match(r"^https://([^/]+)/([^/]+)/([^/]+)/pull/(\d+)(?:[/?#].*)?$", pr_url): the
\* positions of the three slashes and of the last digit, for every way to match
PrUrlMatches(text) ==
    { m \in (1..Len(text)) \X (1..Len(text)) \X (1..Len(text)) \X (1..Len(text)) :
        /\ text[1] = "S"
        /\ 2 < m[1] /\ m[1] + 1 < m[2] /\ m[2] + 1 < m[3] /\ m[3] + 2 < m[4]
        /\ text[m[1]] = "/" /\ text[m[2]] = "/" /\ text[m[3]] = "/"
        /\ NoSlash(SubSeq(text, 2, m[1] - 1))
        /\ NoSlash(SubSeq(text, m[1] + 1, m[2] - 1))
        /\ NoSlash(SubSeq(text, m[2] + 1, m[3] - 1))
        /\ text[m[3] + 1] = "P"
        /\ text[m[3] + 2] = "/"
        /\ AllDigits(SubSeq(text, m[3] + 3, m[4]))
        /\ TailMatches(SubSeq(text, m[4] + 1, Len(text))) }

\* get_pr_info: the four groups of the match, or ValueError
GetPrInfo(text) ==
    IF PrUrlMatches(text) = {} THEN RaisedError("ValueError")
    ELSE LET m == CHOOSE x \in PrUrlMatches(text) : TRUE
         IN Returned([host |-> SubSeq(text, 2, m[1] - 1),
                      owner |-> SubSeq(text, m[1] + 1, m[2] - 1),
                      repo |-> SubSeq(text, m[2] + 1, m[3] - 1),
                      num |-> SubSeq(text, m[3] + 3, m[4])])

\* get_pr_info is called with a text
GetPrInfoCall(parts) ==
    /\ call = NoCall
    /\ Called("get_pr_info", parts, StrV(UrlText(parts)), NoEnv, GetPrInfo(UrlText(parts)))

\* one call of one helper
InitCalls == FetchersIdle /\ AuxIdle

NextCalls ==
    \/ \E setting \in FloatSettings, env \in EnvOf(FloatTexts) : FloatConfCall(setting, env)
    \/ \E limit \in Limits, value \in Values : ValidateIntCall(limit, value)
    \/ \E limit \in Limits, override \in Values, env \in EnvOf(Texts) :
            IntConfCall(limit, override, env)
    \/ \E limit \in Limits, v \in Values : ClampIntValuesCall(limit, v)
    \/ \E a \in 0..MaxAttempt, jitter \in JitterDraws : BackoffCall(a, jitter)
    \/ \E len \in CommentsBefore, threads \in GqlThreadPages : PageCommentsCall(len, threads)
    \/ \E parts \in UrlParts : GetPrInfoCall(parts)
    \/ \E env \in GitEnvs : GitDetectEnvCall(env)
    \/ \E env \in { e \in GitEnvs : e.owner.text = <<>> /\ e.repo.text \in {<<>>, <<"a">>}
                                      /\ e.branch.text \in {<<>>, <<"a">>} },
          git \in GitStates : GitDetectGitCall(env, git)

SpecCalls == InitCalls /\ [][NextCalls]_vars

(* ------------------------------ claims --------------------------------- *)

\* C1: in one run of the executor the retries caused by connection-level errors and
\* by 5xx responses never exceed max_retries, so at most max_retries + 1 GETs of
\* the run do not follow a "retry" of the status handler.
C1_CountedRetriesBounded ==
    /\ run_counted <= max_retries_v
    /\ run_gets - run_handler_retries <= max_retries_v + 1

\* C1 witness: a run that used its whole budget next to a handler-driven retry.
C1_Witness ==
    /\ max_retries_v >= 1
    /\ run_counted = max_retries_v
    /\ run_handler_retries >= 1
    /\ run_gets - run_handler_retries = max_retries_v + 1

\* C2: a step in which the status handler answers "retry" leaves the attempt
\* counter and the number of counted retries as they were and performs no backoff
\* sleep (its only sleep, if any, is the handler's rate-limit wait).
C2_HandlerRetryNotCounted ==
    [][event' = "handler_retry" =>
          /\ attempt' = attempt
          /\ run_counted' = run_counted
          /\ \/ sleeps' = sleeps /\ last_sleep' = last_sleep
             \/ sleeps' = sleeps + 1 /\ last_sleep'.kind = "rate_limit"]_vars

\* C2 witness: after a handler-driven retry the run still spends its whole budget
\* of counted retries.
C2_Witness ==
    /\ event = "server_error_retry"
    /\ run_handler_retries >= 1
    /\ run_gets = 2
    /\ run_counted = 1
    /\ attempt = 1

C4_SecondaryLimitPolicy ==
    /\ secondary_run = 1 =>
          /\ pc = "request"
          /\ event = "handler_retry"
          /\ last_sleep.kind = "rate_limit"
    /\ secondary_run = 2 =>
          /\ pc = "done"
          /\ outcome = "null"
          /\ (gets = 2 => sleeps = 1)

\* the sleep C5 states for a rate-limit response, in seconds
C5_StatedDelay(r) ==
    IF Truthy(r.retry_after) /\ IntParses(r.retry_after.text)
    THEN IntValue(r.retry_after.text)
    ELSE IF Truthy(r.reset) /\ IntParses(r.reset.text)
    THEN Max(IntValue(r.reset.text) - Now, 1)
    ELSE DefaultRetryAfter

\* the responses C5 calls a primary rate limit
C5_IsPrimaryLimit(r) ==
    \/ r.status = 429
    \/ r.status = 403 /\ (r.remaining = H(<<"0">>) \/ Truthy(r.retry_after))

\* C5: a primary rate-limit response is answered by one sleep of the stated
\* length, Retry-After, else max(reset - now, 1), else 60 seconds, and a new GET of
\* the same page.
C5_PrimaryLimitSleep ==
    C5_IsPrimaryLimit(resp) =>
        /\ event = "handler_retry"
        /\ pc = "request"
        /\ url = sent_url[gets]
        /\ last_sleep = [kind |-> "rate_limit", ms |-> 1000 * C5_StatedDelay(resp)]

\* C6: every 429 is answered by a sleep and a new GET of the page, whatever its
\* headers, and never ends the fetch with an HTTP error.
C6_Every429Retried ==
    resp.status = 429 =>
        /\ event = "handler_retry"
        /\ pc = "request"
        /\ outcome # "http_error"
        /\ last_sleep.kind = "rate_limit"

\* C7: with a token, a 401 answer to the first GET (sent with Bearer) is followed
\* at once, without a sleep, by a GET of the same page with the token scheme; when
\* that GET is answered 200 with a list, the list holds exactly its comments and a
\* fetch that ends there returns it after 2 GETs.
C7_TokenFallback ==
    (token /\ gets >= 1 /\ first_status = 401) =>
        /\ sent_auth[1] = "Bearer"
        /\ gets = 1 =>
              /\ pc = "request"
              /\ url = sent_url[1]
              /\ authorization = "token"
              /\ sleeps = 0
        /\ gets >= 2 =>
              /\ sent_auth[2] = "token"
              /\ sent_url[2] = sent_url[1]
        /\ (gets = 2 /\ resp.status = 200 /\ resp.body.kind = "list") =>
              /\ all_comments = <<resp.body.n>>
              /\ sleeps = 0
              /\ pc = "done" => outcome = "list"

\* C7 witness: 401, then 200 with comments, and the fetch returned them after 2 GETs.
C7_Witness ==
    /\ token
    /\ first_status = 401
    /\ gets = 2
    /\ sent_auth = <<"Bearer", "token">>
    /\ pc = "done"
    /\ outcome = "list"
    /\ all_comments = <<50>>

\* C8: over all pages of a fetch the Authorization scheme changes at most once; no
\* GET after one sent with the token scheme is sent with Bearer; and a 401 answer
\* to a GET sent with the token scheme ends the fetch with the HTTP error.
C8_SingleSchemeSwitch ==
    /\ switches <= 1
    /\ \A i \in 1..Len(sent_auth) : \A j \in i..Len(sent_auth) :
          sent_auth[i] = "token" => sent_auth[j] = "token"
    /\ (gets >= 1 /\ resp.status = 401 /\ sent_auth[gets] = "token") =>
          /\ pc = "done"
          /\ outcome = "http_error"

\* C8 witness: the switch on the first page, a 401 on a later page ends the fetch.
C8_Witness ==
    /\ switches = 1
    /\ page_count >= 1
    /\ sent_auth = <<"Bearer", "token", "token">>
    /\ resp.status = 401
    /\ pc = "done"
    /\ outcome = "http_error"

\* C9 as stated: against a server that always answers 200 with a list and a
\* rel="next" link, a finished fetch has issued exactly max_pages GETs.
C9_ExactlyMaxPagesGets == (ideal /\ pc = "done") => gets = max_pages_v

\* C9 amended: never more than max_pages pages are processed; against such a
\* server a finished fetch returns its pages after one GET per page, and their
\* number is max_pages unless the comment count reached max_comments first.
C9_PageCap ==
    /\ page_count <= max_pages_v
    /\ (ideal /\ pc = "done") =>
          /\ outcome = "list"
          /\ gets = page_count
          /\ Len(all_comments) = gets
          /\ gets = max_pages_v \/ SumSeq(all_comments) >= max_comments_v

\* C9 witness: the page cap, and not the comment cap, ended a fetch of several pages.
C9_Witness ==
    /\ ideal
    /\ pc = "done"
    /\ max_pages_v >= 2
    /\ gets = max_pages_v
    /\ SumSeq(all_comments) < max_comments_v

\* C10: a GET is only ever due while the accumulated comment count is below
\* max_comments, so a fetch whose count reached or landed on max_comments is over.
C10_NoGetAtCommentCap ==
    /\ pc = "request" => SumSeq(all_comments) < max_comments_v
    /\ SumSeq(all_comments) >= max_comments_v => (pc = "done" /\ outcome = "list")

\* C10 witness: the count landed exactly on max_comments on a page with a
\* rel="next" link and below the page cap, and the fetch ended.
C10_Witness ==
    /\ SumSeq(all_comments) = max_comments_v
    /\ NextUrl(resp.link) # 0
    /\ page_count < max_pages_v
    /\ gets = page_count
    /\ pc = "done"
    /\ outcome = "list"

C12_RelNext(link) ==
    LET nexts == { i \in 1..Len(link) : link[i].rel = "next" }
    IN IF nexts = {} THEN 0
       ELSE link[CHOOSE i \in nexts : \A j \in nexts : i <= j].target

\* C12: the first GET goes to the initial URL; while every GET so far was answered
\* by a page and no cap is reached, the step requests the current URL, appends the
\* page after the earlier ones, and either moves to the rel="next" URL of the
\* response or, when the response has none, returns the list.
C12_FollowsRelNext ==
    /\ [](gets = 0 => url = 1)
    /\ [][ (gets' = gets + 1 /\ page_count' = gets'
            /\ ~(page_count' >= max_pages_v \/ SumSeq(all_comments') >= max_comments_v))
           => /\ sent_url' = Append(sent_url, url)
              /\ all_comments' = Append(all_comments, resp'.body.n)
              /\ IF C12_RelNext(resp'.link) = 0
                 THEN pc' = "done" /\ outcome' = "list"
                 ELSE pc' = "request" /\ url' = C12_RelNext(resp'.link) ]_vars

\* C12 witness: two pages fetched with two GETs, the second page without a
\* rel="next" link, below both caps.
C12_Witness ==
    /\ outcome = "list"
    /\ gets = 2
    /\ sent_url = <<1, 2>>
    /\ all_comments = <<50, 50>>
    /\ C12_RelNext(resp.link) = 0
    /\ max_pages_v > 2
    /\ max_comments_v > 100

\* C13: while every GET of a run fails with a connection-level error, the executor
\* sleeps and retries max_retries times and the next error ends the fetch: null for
\* a timeout, the error itself otherwise; with max_retries = 0 the first error ends
\* the fetch and nothing has slept.
C13_ConnectionErrorsExhausted ==
    run_kind = "errors" =>
        /\ run_gets <= max_retries_v + 1
        /\ run_counted = Min(run_gets, max_retries_v)
        /\ gets = run_gets => sleeps = run_counted
        /\ run_gets <= max_retries_v => (pc = "request" /\ last_sleep.kind = "backoff")
        /\ run_gets = max_retries_v + 1 =>
               /\ pc = "done"
               /\ outcome = IF resp.body.kind = "timeout" THEN "null" ELSE "request_error"

\* C13 witness: a timeout after one retried connection error made the fetch return null.
C13_Witness ==
    /\ run_kind = "errors"
    /\ max_retries_v = 1
    /\ run_gets = 2
    /\ sleeps = 1
    /\ resp.body.kind = "timeout"
    /\ outcome = "null"

\* C14: while every response to the GETs of a page is a 5xx, the fetch issues
\* max_retries + 1 GETs for that page and then returns null.
C14_ServerErrorsExhausted ==
    run_kind = "5xx" =>
        /\ run_gets <= max_retries_v + 1
        /\ run_gets <= max_retries_v => pc = "request"
        /\ run_gets = max_retries_v + 1 => (pc = "done" /\ outcome = "null")

\* C14 witness: with max_retries = 1 two GETs answered 500 and the fetch returned null.
C14_Witness ==
    /\ run_kind = "5xx"
    /\ max_retries_v = 1
    /\ gets = 2
    /\ run_gets = 2
    /\ outcome = "null"

\* a GET of the step is answered 200 with a list after the run's k GETs were all
\* answered 5xx (k = run_gets)
C15_OkAfterServerErrors ==
    /\ run_kind = "5xx"
    /\ gets' = gets + 1
    /\ resp'.status = 200
    /\ resp'.body.kind = "list"

C16_GraphqlRateLimitPolicy ==
    /\ (posts = 1 /\ gql_resp.status \in {403, 429})
           => (gql_pc = "post" /\ gql_sleeps = 1)
    /\ (posts = 2 /\ gql_secondary_run = 2)
           => (gql_pc = "done" /\ gql_outcome = "null" /\ gql_sleeps = 1)

\* C17: the list the GraphQL fetch returns never holds more than max_comments comments.
C17_GraphqlCommentCap ==
    gql_outcome = "list" => SumSeq(gql_all_comments) <= gql_max_comments_v

\* C18: a 200 answer whose JSON has an errors entry ends the GraphQL fetch at once
\* and the fetch returns null, whatever was accumulated from earlier pages.
C18_GraphqlErrorsYieldNull ==
    (gql_resp.status = 200 /\ gql_resp.body.json /\ gql_resp.body.errors)
        => (gql_pc = "done" /\ gql_outcome = "null")

\* C18 witness: the second page came with an errors entry next to its data after
\* comments of the first page had been accumulated.
C18_Witness ==
    /\ posts = 2
    /\ gql_pages = 1
    /\ SumSeq(gql_all_comments) > 0
    /\ gql_resp.body.errors
    /\ gql_resp.body.pr
    /\ gql_outcome = "null"

\* C19: when the fetcher returned null the tool returns the single-element error
\* payload, not an empty list.
C19_NullReportedAsError ==
    (tool_pc = "returned" /\ gql_outcome = "null") => tool_result = <<ErrorElement>>

C21_ErrorStrategyNoFallback ==
    /\ (rs_strategy = "error" /\ rs_branch # 0) =>
           \A i \in 1..Len(rs_requests) : rs_requests[i] = "filtered"
    /\ (rs_strategy = "error" /\ rs_branch # 0 /\ rs_requests # <<>>
          /\ rs_resp.status = 200 /\ rs_resp.data = <<>>)
           => /\ rs_pc = "done"
              /\ rs_outcome = RsRaise("value_error", "no_pr_for_branch")
              /\ rs_requests = <<"filtered">>

\* C21 witness: the error strategy got an empty answer to its branch-filtered query.
C21_Witness ==
    /\ rs_strategy = "error"
    /\ rs_branch = 1
    /\ rs_requests = <<"filtered">>
    /\ rs_resp.status = 200
    /\ rs_resp.data = <<>>
    /\ rs_outcome.msg = "no_pr_for_branch"

\* the URL fields of the entries whose number no entry of the list undercuts
C22_SmallestUrls(prs) ==
    { IF prs[i].html_url # 0 THEN prs[i].html_url ELSE prs[i].url :
        i \in { k \in 1..Len(prs) : \A j \in 1..Len(prs) : prs[k].number <= prs[j].number } }

\* C22: with select_strategy "first" a non-empty general list makes resolve_pr_url
\* return the URL of the entry with the numerically smallest number, whatever the
\* order of the list.
C22_FirstIsSmallestNumber ==
    (rs_strategy = "first" /\ rs_pc = "done" /\ rs_resp.status = 200 /\ rs_resp.data # <<>>)
        => /\ rs_outcome.kind = "url"
           /\ rs_outcome.url \in C22_SmallestUrls(rs_resp.data)
           /\ rs_requests = <<"general">>

\* C22 witness: candidates numbered 5, 2, 10 in this order gave the URL of PR 2.
C22_Witness ==
    /\ rs_strategy = "first"
    /\ Len(rs_resp.data) = 3
    /\ rs_resp.data[1].number = 5
    /\ rs_resp.data[2].number = 2
    /\ rs_resp.data[3].number = 10
    /\ rs_outcome = [kind |-> "url", url |-> 202, msg |-> "none"]

\* C23: _validate_int rejects with a ValueError every argument that is a boolean,
\* that is not an integer (a string included) or that lies outside the range of
\* its limit; only an absent argument and an integer of the range are accepted.
C23_InvalidLimitRejected ==
    call.fn = "_validate_int" =>
        LET value == call.arg
            invalid ==
                \/ value.type = "bool"
                \/ value.type \notin {"none", "int"}
                \/ value.type = "int"
                      /\ ~(call.limit.min_v <= value.n /\ value.n <= call.limit.max_v)
        IN invalid => call.result.raised = "ValueError"

\* n brought into the range of the limit
C24_Clamped(n, limit) ==
    IF n < limit.min_v THEN limit.min_v ELSE IF n > limit.max_v THEN limit.max_v ELSE n

\* C24: the effective limit is the integer override clamped into the range when an
\* override is given, whatever the environment; else the integer of the
\* environment variable clamped into the range when the variable is set; else the
\* default.
C24_OverrideEnvDefault ==
    call.fn = "_int_conf" =>
        /\ call.arg.type = "int"
              => call.result = Returned(C24_Clamped(call.arg.n, call.limit))
        /\ (call.arg = NoneV /\ call.env.present /\ PyIntParses(call.env.text))
              => call.result = Returned(C24_Clamped(PyIntValue(call.env.text), call.limit))
        /\ (call.arg = NoneV /\ ~call.env.present)
              => call.result = Returned(call.limit.default)

\* C24 witness: the per_page override 1000 beat a set environment variable and was
\* used as 100.
C24_Witness ==
    /\ call.fn = "_int_conf"
    /\ call.limit.name = "per_page"
    /\ call.arg = IntV(1000)
    /\ call.env = [present |-> TRUE, text |-> <<"5", "0">>]
    /\ call.result = Returned(100)

\* the input a clamped integer setting is resolved from
C25_IntInput ==
    IF call.arg # NoneV THEN call.arg
    ELSE IF call.env.present THEN StrV(call.env.text)
    ELSE IntV(call.limit.default)

\* C25: a clamped numeric setting never raises, resolves to a value of its range,
\* and resolves to its default when the input is no number (nan and the
\* infinities included).
C25_InRangeOrDefault ==
    /\ call.fn \in {"_int_conf", "clamp_int_values"} =>
          /\ call.result.raised = "none"
          /\ call.limit.min_v <= call.result.value
          /\ call.result.value <= call.limit.max_v
          /\ ToInt(C25_IntInput).error # "none" => call.result.value = call.limit.default
    /\ call.fn = "_float_conf" =>
          /\ call.result.raised = "none"
          /\ call.result.value.special = "none"
          /\ call.limit.min_v <= call.result.value.n
          /\ call.result.value.n <= call.limit.max_v
          /\ (call.env.present /\ (ToFloat(call.env.text) = NoneV
                                    \/ ToFloat(call.env.text).special # "none"))
                => call.result.value = FloatV(call.limit.default)

\* C26: the backoff delay never exceeds 15.0 seconds and is exactly 15.0 seconds
\* for attempt 6 with the jitter at 0.
C26_CeilingFifteen ==
    call.fn = "_calculate_backoff_delay" =>
        /\ call.result.value <= StatedBackoffCeiling
        /\ (call.limit.n = 6 /\ call.arg.n = 0) => call.result.value = StatedBackoffCeiling

\* C30: for attempt a and jitter j in [0, 0.25] the delay is min(ceiling, 0.5 * 2^a + j),
\* lies between 0.5 * 2^a and 0.5 * 2^a + 0.25, both clipped to the ceiling, and is
\* not below the delay of attempt a - 1 with the same jitter.
C30_BackoffFormula ==
    call.fn = "_calculate_backoff_delay" =>
        LET a == call.limit.n
            j == call.arg.n
            base == 500 * 2^a
            clip(x) == IF x > BackoffCap THEN BackoffCap ELSE x
        IN /\ call.result.value = clip(base + j)
           /\ clip(base) <= call.result.value
           /\ call.result.value <= clip(base + 250)
           /\ a > 0 => CalculateBackoffDelay(a - 1, j) <= call.result.value

\* C30 witness: attempt 3 with a jitter of 0.125 s sleeps 4.125 s, below the ceiling.
C30_Witness ==
    /\ call.fn = "_calculate_backoff_delay"
    /\ call.limit.n = 3
    /\ call.arg.n = 125
    /\ call.result.value = 4125

\* C27: a REST fetch issues a bounded number of requests and terminates whatever
\* the server answers: the state that decides what the fetch does next
\* (Authorization scheme, fallback flag, server-error flag, page URL, pages and
\* comments fetched, attempt index) never repeats while a GET is due, so that no
\* response, a 429 with Retry-After included, can be answered by the same GET forever.
C27_FetchTerminates ==
    [][ (gets' = gets + 1 /\ pc' = "request")
            => <<authorization, used_token_fallback, had_server_error, url,
                 page_count, all_comments, attempt>>'
               # <<authorization, used_token_fallback, had_server_error, url,
                   page_count, all_comments, attempt>> ]_vars

\* C28: fetch_pr_comments_graphql issues a bounded number of page queries and
\* terminates whatever the server answers: the state that decides what the fetch
\* does next (comments collected, cursor, hasNextPage, attempt index) never repeats
\* while a query is due, also for pages that report hasNextPage = true and
\* contribute no comments.
C28_GraphqlFetchTerminates ==
    [][ (posts' = posts + 1 /\ gql_pc' = "post")
            => <<gql_all_comments, gql_cursor, gql_has_next_page, gql_attempt>>'
               # <<gql_all_comments, gql_cursor, gql_has_next_page, gql_attempt>> ]_vars

\* C29: within one executor run the i-th counted retry (i = 0, 1, ...) is preceded
\* by exactly one backoff sleep of backoff(i): the attempt index starts at 0 in
\* every run, is i at the i-th counted retry and grows by exactly 1 with it, is left
\* alone by handler-driven retries, and the step that ends the fetch sleeps no backoff.
C29_BackoffPerCountedRetry ==
    [][ /\ run_counted' = run_counted + 1 =>
              /\ sleeps' = sleeps + 1
              /\ attempt = run_counted
              /\ attempt' = attempt + 1
              /\ last_sleep'.kind = "backoff"
              /\ \E j \in Jitters :
                     last_sleep'.ms = IF 500 * 2^run_counted + j > BackoffCap
                                      THEN BackoffCap
                                      ELSE 500 * 2^run_counted + j
        /\ event' = "handler_retry" =>
              /\ attempt' = attempt
              /\ last_sleep'.kind # "backoff" \/ last_sleep' = last_sleep
        /\ run_gets' = 0 => attempt' = 0 /\ run_counted' = 0
        /\ (run_counted' # run_counted + 1 /\ event' # "handler_retry") =>
              sleeps' = sleeps /\ last_sleep' = last_sleep ]_vars

\* C29 witness: the second counted retry of a run, after a handler-driven retry,
\* has slept backoff(1) with the jitter at 0.25 s.
C29_Witness ==
    /\ run_counted = 2
    /\ run_handler_retries >= 1
    /\ attempt = 2
    /\ last_sleep = [kind |-> "backoff", ms |-> 1250]
    /\ pc = "request"

\* C31: handle_call_tool("fetch_pr_review_comments", ...) validates the numeric limits
\* and the output value before any request is sent: no POST is ever issued for a
\* call that carries an invalid limit or an invalid output value.
C31_ValidatedBeforeRequest ==
    (~LimitsValid(hc_args) \/ ~OutputValid(hc_args.output)) => posts = 0

\* the entries of a list whose head ref is the branch, by position
C32_Hits(prs, branch) == { i \in 1..Len(prs) : prs[i].ref = branch }

C33_OnlyBranchSelected ==
    (rs_strategy \in {"branch", "error"} /\ rs_outcome.kind = "url") =>
        /\ rs_branch # 0
        /\ \/ rs_requests[Len(rs_requests)] = "filtered"
           \/ rs_selected.ref = rs_branch
        /\ rs_strategy = "error" => rs_requests = <<"filtered">>

\* C34: resolve_pr_url raises or returns a non-empty URL string, never null, whatever
\* fields the selected entry has.
C34_NeverNull ==
    rs_outcome.kind = "url" => rs_outcome.url # 0

\* C35: a 5xx response or a connection error on a request of the resolver is retried
\* before the resolution fails (the request that failed was sent more than once),
\* while the filtered and the general request are each started at most once, the
\* filtered one first.
C35_RequestsRetried ==
    /\ (rs_pc = "done" /\ rs_outcome.kind = "request_error") => Len(rs_requests) >= 2
    /\ (rs_pc = "done" /\ rs_outcome.kind = "http_error" /\ Is5xx(rs_resp.status))
           => Len(rs_requests) >= 2
    /\ rs_requests \in {<<>>, <<"filtered">>, <<"general">>, <<"filtered", "general">>}

\* C36: every comment that fetch_pr_comments_graphql takes from a page carries the
\* is_resolved, is_outdated and resolved_by of the review thread it came from, the
\* comments are in thread order and, inside a thread, in comment order, and the login
\* is "unknown" for a null author or an author without login, never null.
C36_ThreadFieldsAndOrder ==
    call.fn = "process_threads" =>
        LET threads == call.arg
            out == call.result.value
            t(i) == out[i].body \div 10
            k(i) == out[i].body % 10
        IN /\ \A i \in 1..Len(out) :
                /\ t(i) \in 1..Len(threads)
                /\ k(i) \in 1..Len(threads[t(i)].comments)
                /\ out[i].is_resolved = threads[t(i)].is_resolved
                /\ out[i].is_outdated = threads[t(i)].is_outdated
                /\ out[i].resolved_by = threads[t(i)].resolved_by
                /\ out[i].login \notin {"null", "nologin"}
                /\ out[i].login = "unknown"
                      <=> threads[t(i)].comments[k(i)].author \in {"null", "nologin"}
                /\ out[i].login # "unknown"
                      => out[i].login = threads[t(i)].comments[k(i)].author
           /\ \A i, j \in 1..Len(out) :
                i < j => (t(i) < t(j) \/ (t(i) = t(j) /\ k(i) < k(j)))
           /\ \A i \in 1..Len(threads) :
                threads[i].comments # <<>> => \E n \in 1..Len(out) : out[n].body = 10 * i + 1

\* C36 witness: two comments of an unresolved thread are followed by a comment of a
\* resolved, outdated thread whose author is null.
C36_Witness ==
    /\ call.fn = "process_threads"
    /\ Len(call.result.value) = 3
    /\ call.result.value[2] =
          [login |-> "alice", body |-> 12, is_resolved |-> FALSE, is_outdated |-> FALSE,
           resolved_by |-> "none"]
    /\ call.result.value[3] =
          [login |-> "unknown", body |-> 21, is_resolved |-> TRUE, is_outdated |-> TRUE,
           resolved_by |-> "bob"]
    /\ call.arg[2].comments[1].author = "null"

\* the locals that decide the result of a fetch
C37_Program(l) ==
    <<l.authorization, l.used_token_fallback, l.had_server_error, l.url, l.page_count,
      l.all_comments, l.attempt, l.pc, l.outcome>>

C38_Trimmed(text) ==
    /\ text # <<>>
    /\ text[1] # " "
    /\ text[Len(text)] # " "

\* C38: every GitContext that git_detect_repo_branch returns, from the environment
\* overrides or from git metadata, has a lower-cased host and non-empty owner, repo
\* and branch without leading or trailing whitespace.
C38_ContextNormalised ==
    (call.fn = "git_detect_repo_branch" /\ call.result.raised = "none") =>
        LET ctx == call.result.value IN
        /\ \A i \in 1..Len(ctx.host) : ctx.host[i] \notin {"H", "B"}
        /\ C38_Trimmed(ctx.owner)
        /\ C38_Trimmed(ctx.repo)
        /\ C38_Trimmed(ctx.branch)

\* the text is https://{host}/{owner}/{repo}/pull/{n} with nothing, a trailing slash,
\* a further path, a query string or a fragment behind it
C39_OfTheForm(parts) ==
    /\ parts.prefix = <<"S">>
    /\ parts.host # <<>> /\ \A i \in 1..Len(parts.host) : parts.host[i] # "/"
    /\ parts.owner # <<>> /\ \A i \in 1..Len(parts.owner) : parts.owner[i] # "/"
    /\ parts.kind = "P"
    /\ parts.number # <<>> /\ \A i \in 1..Len(parts.number) : parts.number[i] \in {"1", "2"}
    /\ \/ parts.suffix = <<>>
       \/ /\ parts.suffix[1] \in {"/", "?", "#"}
          /\ \A i \in 1..Len(parts.suffix) : parts.suffix[i] # "N"

\* C39: for a URL https://{host}/{owner}/{repo}/pull/{n} with a tolerated suffix
\* get_pr_info returns four fields from which https://{host}/{owner}/{repo}/pull/{n}
\* is rebuilt as the input without its suffix, and for every other input it raises
\* ValueError.
C39_RoundTripOrValueError ==
    call.fn = "get_pr_info" =>
        IF C39_OfTheForm(call.limit)
        THEN /\ call.result.raised = "none"
             /\ LET f == call.result.value
                    rebuilt == <<"S">> \o f.host \o <<"/">> \o f.owner \o <<"/">> \o f.repo
                                   \o <<"/", "P", "/">> \o f.num
                IN rebuilt \o call.limit.suffix = call.arg.text
        ELSE call.result.raised = "ValueError"

====
